---- MODULE Spec2Model ----
(***************************************************************************)
(* rhc.micro: the micro-service launcher of the rhc library.               *)
(*                                                                         *)
(* A 'micro' file of one-line directives is flattened by _load (IMPORT     *)
(* expansion), lexed by parse, and interpreted by the FSM, which builds a  *)
(* config namespace, Server and Route objects and registers the servers    *)
(* with rhc.tcpsocket.SERVER; the entry point then drives run().           *)
(*                                                                         *)
(* Text is modelled at token granularity: a physical line is a sequence    *)
(* of tokens, each token a string that is either one separator character   *)
(* (" ", "\t", "#") or a run of characters holding none of them.  The      *)
(* trailing newline of a line read by readlines() is left out: both        *)
(* consumers of a line remove it (str.split() and str.strip()).            *)
(***************************************************************************)
EXTENDS Integers, Sequences, FiniteSets, TLC

VARIABLES
    fs,          \* the files on disk: resolved file -> sequence of lines
    environ,     \* os.environ: variable name -> string
    override,    \* the file 'config' in the working directory, or NoFile
    busy,        \* ports in use outside the process: SERVER.add_server raises
    argv,        \* sys.argv[1:] of the entry point
    entry,       \* what called parse: __main__ or load_config, and its call number
    pc,          \* position of the entry point / parse / run
    lines,       \* parse: the list returned by _load
    idx,         \* parse: 1-based index of the next element of lines
    last,        \* parse: the loop variables fname, lnum after the last iteration
    fsm,         \* parse: the FSM object
    world,       \* effects outside the FSM: registry, setup calls, 'config' loads
    err,         \* the exception that left parse, or NoErr
    result,      \* the value parse returned, or NoResult
    loop,        \* run: what the last cycle serviced and what it raised
    hist         \* history of the compilation (see NoHist)

vars == <<fs, environ, override, busy, argv, entry, pc, lines, idx, last, fsm, world,
          err, result, loop, hist>>

(***************************************************************************)
(* Bounds of the model.                                                    *)
(***************************************************************************)
MaxTotalLines == 4      \* lines over all files of a file system (SpecLoad)
MaxStream == 4          \* physical lines of a directive stream (Spec)
RecursionLimit == 6     \* nesting of _load that only an endless import chain reaches
MaxCalls == 2           \* calls of load_config in one process (SpecLex)

(***************************************************************************)
(* Python string helpers on token sequences.                               *)
(***************************************************************************)
Whitespace == {" ", "\t"}

RECURSIVE JoinWith(_, _)
\* sep.join(words)
JoinWith(sep, words) ==
    IF words = <<>> THEN ""
    ELSE IF Len(words) = 1 THEN words[1]
    ELSE words[1] \o sep \o JoinWith(sep, Tail(words))

\* the string a token sequence spells
Str(toks) == JoinWith("", toks)

RECURSIVE SplitWS(_, _, _)
\* str.split(): the maximal runs of non-whitespace tokens, in order
SplitWS(l, cur, acc) ==
    IF l = <<>> THEN (IF cur = <<>> THEN acc ELSE Append(acc, cur))
    ELSE IF Head(l) \in Whitespace
         THEN SplitWS(Tail(l), <<>>, IF cur = <<>> THEN acc ELSE Append(acc, cur))
         ELSE SplitWS(Tail(l), Append(cur, Head(l)), acc)

split(l) == SplitWS(l, <<>>, <<>>)

\* the index of the first token of l equal to c, or 0
First(l, c) ==
    IF \E i \in 1..Len(l) : l[i] = c
    THEN CHOOSE i \in 1..Len(l) : l[i] = c /\ \A j \in 1..(i - 1) : l[j] # c
    ELSE 0

\* str.split(c, 1): one or two pieces
split1(l, c) ==
    LET i == First(l, c) IN
    IF i = 0 THEN <<l>>
    ELSE <<SubSeq(l, 1, i - 1), SubSeq(l, i + 1, Len(l))>>

RECURSIVE lstrip(_)
lstrip(l) == IF l # <<>> /\ Head(l) \in Whitespace THEN lstrip(Tail(l)) ELSE l

RECURSIVE rstrip(_)
rstrip(l) ==
    IF l # <<>> /\ l[Len(l)] \in Whitespace THEN rstrip(SubSeq(l, 1, Len(l) - 1)) ELSE l

\* str.strip()
strip(l) == rstrip(lstrip(l))

\* str.lower() on the words that occur in the model; a string with no
\* upper-case spelling listed here is already lower case or is never
\* compared with a directive name
LowerMap ==
    [w \in {"IMPORT", "Import", "CONFIG", "Config", "CONFIG_SERVER", "SETUP",
            "TEARDOWN", "PORT", "Port", "SERVER", "ROUTE", "GET", "Get",
            "POST", "PUT", "DELETE", "DONE"} |->
        CASE w \in {"IMPORT", "Import"} -> "import"
          [] w \in {"CONFIG", "Config"} -> "config"
          [] w = "CONFIG_SERVER" -> "config_server"
          [] w = "SETUP" -> "setup"
          [] w = "TEARDOWN" -> "teardown"
          [] w \in {"PORT", "Port"} -> "port"
          [] w = "SERVER" -> "server"
          [] w = "ROUTE" -> "route"
          [] w \in {"GET", "Get"} -> "get"
          [] w = "POST" -> "post"
          [] w = "PUT" -> "put"
          [] w = "DELETE" -> "delete"
          [] w = "DONE" -> "done"]

lower(w) == IF w \in DOMAIN LowerMap THEN LowerMap[w] ELSE w

\* str.split('.') of the dotted names that occur in the model; any other
\* string of the model holds no '.'
DotTable ==
    ("s.port" :> <<"s", "port">>) @@ ("t.port" :> <<"t", "port">>) @@
    ("s.is_active" :> <<"s", "is_active">>) @@ ("t.is_active" :> <<"t", "is_active">>) @@
    ("s.ssl.is_active" :> <<"s", "ssl", "is_active">>) @@
    ("t.ssl.is_active" :> <<"t", "ssl", "is_active">>) @@
    ("s.ssl.keyfile" :> <<"s", "ssl", "keyfile">>) @@
    ("t.ssl.keyfile" :> <<"t", "ssl", "keyfile">>) @@
    ("s.ssl.certfile" :> <<"s", "ssl", "certfile">>) @@
    ("t.ssl.certfile" :> <<"t", "ssl", "certfile">>) @@
    ("loop.sleep" :> <<"loop", "sleep">>) @@
    ("loop.max_iterations" :> <<"loop", "max_iterations">>) @@
    ("sub.c" :> <<"sub", "c">>) @@ ("nomod.c" :> <<"nomod", "c">>) @@
    ("app.setup" :> <<"app", "setup">>) @@ ("app.alt" :> <<"app", "alt">>) @@
    ("app.boom" :> <<"app", "boom">>) @@ ("app.stop" :> <<"app", "stop">>) @@
    ("h.ping" :> <<"h", "ping">>) @@ ("h.pong" :> <<"h", "pong">>) @@
    ("h.missing" :> <<"h", "missing">>) @@ ("nomod.f" :> <<"nomod", "f">>) @@
    ("app.missing" :> <<"app", "missing">>) @@ ("a.b.c" :> <<"a", "b", "c">>)

SplitDot(n) == IF n \in DOMAIN DotTable THEN DotTable[n] ELSE <<n>>

InSeq(x, s) == \E i \in 1..Len(s) : s[i] = x

(***************************************************************************)
(* Exceptions.  kind is the Python exception raised, arg what its message  *)
(* names, path the file it names, ctx the ", line=<n> of <file>" suffixes  *)
(* FSM.handle has appended.                                                *)
(***************************************************************************)
NoErr == [kind |-> "none", arg |-> "", path |-> <<>>, ctx |-> <<>>]

Raise(kind, arg, path) == [kind |-> kind, arg |-> arg, path |-> path, ctx |-> <<>>]

(***************************************************************************)
(* The file system.  A path is the sequence of its "/"-separated segments  *)
(* ('' is <<>>); fs maps the resolved location of each file to its lines.  *)
(***************************************************************************)
Root == <<"micro">>

\* what the file-name strings of the model are made of: segments, whether
\* the name holds a '.', whether it starts with os.path.sep
PathTable ==
    [n \in {"micro", "b", "sub/c", "c", "../micro", "sub.c", "nomod.c", "/micro"} |->
        CASE n = "micro"    -> [segs |-> <<"micro">>,       dot |-> FALSE, sep |-> FALSE, abs |-> FALSE]
          [] n = "b"        -> [segs |-> <<"b">>,           dot |-> FALSE, sep |-> FALSE, abs |-> FALSE]
          [] n = "c"        -> [segs |-> <<"c">>,           dot |-> FALSE, sep |-> FALSE, abs |-> FALSE]
          [] n = "sub/c"    -> [segs |-> <<"sub", "c">>,    dot |-> FALSE, sep |-> TRUE,  abs |-> FALSE]
          [] n = "../micro" -> [segs |-> <<"..", "micro">>, dot |-> TRUE,  sep |-> TRUE,  abs |-> FALSE]
          [] n = "sub.c"    -> [segs |-> <<"sub.c">>,       dot |-> TRUE,  sep |-> FALSE, abs |-> FALSE]
          [] n = "nomod.c"  -> [segs |-> <<"nomod.c">>,     dot |-> TRUE,  sep |-> FALSE, abs |-> FALSE]
          [] n = "/micro"   -> [segs |-> <<"/", "micro">>,  dot |-> FALSE, sep |-> TRUE,  abs |-> TRUE]]

PathInfo(n) ==
    IF n \in DOMAIN PathTable THEN PathTable[n]
    ELSE [segs |-> <<n>>, dot |-> FALSE, sep |-> FALSE, abs |-> FALSE]

\* the file that makes a directory of the working directory a package
Package(name) == <<name, "__init__.py">>

\* imp.find_module(name)[1]: the directory of an importable module.  The
\* working directory is on sys.path and holds no Python module, so a name
\* is found when it is a directory that holds __init__.py; for any other
\* name find_module raises ImportError
ModuleFound(f, name) == Package(name) \in DOMAIN f
find_module(name) == <<name>>

\* os.path.dirname
dirname(p) == IF p = <<>> THEN <<>> ELSE SubSeq(p, 1, Len(p) - 1)

\* os.path.join(a, b) for a relative b
join(a, b) == a \o b

RECURSIVE Prefixes(_)
Prefixes(p) == IF p = <<>> THEN {<<>>} ELSE {p} \cup Prefixes(dirname(p))

\* the directories: every proper prefix of the location of a file
Dirs(f) == UNION {Prefixes(dirname(p)) : p \in DOMAIN f}

RECURSIVE Walk(_, _, _)
\* the operating system's resolution of a path against the working
\* directory: the location reached, or <<"?">> when a directory on the way
\* does not exist.  The files of the model lie in or below the working
\* directory and no name of the model spells their absolute location, so
\* a step above the working directory and an absolute path reach nothing.
Walk(f, cur, p) ==
    IF p = <<>> THEN cur
    ELSE IF cur \notin Dirs(f) THEN <<"?">>
    ELSE IF Head(p) = "/" THEN <<"?">>
    ELSE IF Head(p) = ".."
         THEN (IF cur = <<>> THEN <<"?">> ELSE Walk(f, dirname(cur), Tail(p)))
         ELSE Walk(f, Append(cur, Head(p)), Tail(p))

Resolve(f, p) == Walk(f, <<>>, p)

\* open(fname).readlines(): can the file be opened, and its lines
CanOpen(f, p) == Resolve(f, p) \in DOMAIN f
readlines(f, p) == f[Resolve(f, p)]

(***************************************************************************)
(* _load: the recursive source loader.  files and lines are the two lists  *)
(* the Python calls share; the value is their state when the call returns  *)
(* or raises.  depth counts the nested calls of _load.                     *)
(***************************************************************************)
RECURSIVE _load(_, _, _, _, _)
RECURSIVE _load_for(_, _, _, _, _, _, _)

\* the target of an IMPORT line: [ok, path]
import_target(f, import_fname, dir_path) ==
    LET info == PathInfo(import_fname) IN
    IF info.dot /\ ~info.sep
    THEN LET parts == SplitDot(import_fname) IN
         IF ModuleFound(f, parts[1])
         THEN [ok |-> TRUE, path |-> join(find_module(parts[1]), Tail(parts))]
         ELSE [ok |-> FALSE, path |-> <<parts[1]>>]
    ELSE IF ~info.abs
         THEN [ok |-> TRUE, path |-> join(dir_path, info.segs)]
         ELSE [ok |-> TRUE, path |-> info.segs]

\* the for loop of _load from line n on
_load_for(f, fname, content, n, files, lines_, depth) ==
    IF n > Len(content) THEN [err |-> NoErr, files |-> files, lines |-> lines_]
    ELSE LET l == content[n]
             ll == split(l)
         IN IF Len(ll) > 1 /\ lower(Str(ll[1])) = "import"
            THEN LET import_fname == JoinWith(" ", [i \in 1..(Len(ll) - 1) |-> Str(ll[i + 1])])
                     t == import_target(f, import_fname, dirname(fname))
                 IN
                 IF ~t.ok
                 THEN [err |-> Raise("ImportError", "No module named", t.path),
                       files |-> files, lines |-> lines_]
                 ELSE LET r == _load(f, t.path, files, lines_, depth + 1) IN
                      IF r.err # NoErr THEN r
                      ELSE _load_for(f, fname, content, n + 1, r.files, r.lines, depth)
            ELSE _load_for(f, fname, content, n + 1, files,
                           Append(lines_, [fname |-> fname, lnum |-> n, l |-> l]),
                           depth)

\* The code has no bound of its own.  A load that ends by itself nests at
\* most RecursionLimit calls on the file systems of the model; a chain
\* that nests deeper names a new path at every level (sub/../sub/../...)
\* and ends when the interpreter refuses another frame.
_load(f, fname, files, lines_, depth) ==
    IF depth > RecursionLimit
    THEN [err |-> Raise("RuntimeError", "maximum recursion depth exceeded", fname),
          files |-> files, lines |-> lines_]
    ELSE IF InSeq(fname, files)
    THEN [err |-> Raise("Exception", "cannot be recursively imported", fname),
          files |-> files, lines |-> lines_]
    ELSE IF ~CanOpen(f, fname)
    THEN [err |-> Raise("IOError", "No such file or directory", fname),
          files |-> Append(files, fname), lines |-> lines_]
    ELSE _load_for(f, fname, readlines(f, fname), 1, Append(files, fname),
                   lines_, depth)

(***************************************************************************)
(* Values.  A Python value of the model is None, an int, a bool or a str.  *)
(***************************************************************************)
NoneV == [t |-> "none", i |-> 0, s |-> ""]
IntV(n) == [t |-> "int", i |-> n, s |-> ""]
BoolV(b) == [t |-> "bool", i |-> IF b THEN 1 ELSE 0, s |-> ""]
StrV(x) == [t |-> "str", i |-> 0, s |-> x]

\* the truth value of a Python value
Truthy(v) == CASE v.t = "none" -> FALSE
               [] v.t = "str" -> v.s # ""
               [] OTHER -> v.i # 0

\* the digit strings of the model and the integers they spell
IntTable ==
    ("1" :> 1) @@ ("2" :> 2) @@ ("5" :> 5) @@ ("7" :> 7) @@ ("11" :> 11) @@ ("111" :> 111)

\* int(v): [ok, i]; not ok is a ValueError or a TypeError
int(v) == CASE v.t \in {"int", "bool"} -> [ok |-> TRUE, i |-> v.i]
            [] v.t = "str" /\ v.s \in DOMAIN IntTable -> [ok |-> TRUE, i |-> IntTable[v.s]]
            [] OTHER -> [ok |-> FALSE, i |-> 0]

(***************************************************************************)
(* _import: dynamic resolution of a dotted path.  Importable lists the     *)
(* functions that exist in the modules on sys.path; a resolved function    *)
(* is represented by its path.                                             *)
(***************************************************************************)
Importable == {"app.setup", "app.alt", "app.boom", "app.stop", "h.ping", "h.pong"}
ImportableModules == {"app", "h"}

\* importlib.import_module(name), name a Python value: a value that is no
\* string has no method startswith, the empty string is no module name,
\* and a name that is not on sys.path is not found.  [ok, f, err]
import_module(name) ==
    LET fail(e) == [ok |-> FALSE, f |-> "", err |-> e] IN
    IF name.t # "str"
    THEN fail(Raise("AttributeError", "object has no attribute 'startswith'", <<>>))
    ELSE IF name.s = "" THEN fail(Raise("ValueError", "Empty module name", <<>>))
    ELSE IF name.s \notin ImportableModules
    THEN fail(Raise("ImportError", "No module named", <<name.s>>))
    ELSE [ok |-> TRUE, f |-> name.s, err |-> NoErr]

\* _import(item_path, is_module), item_path a Python value; without
\* is_module the callers pass a string, which is split at its last '.'
\* into the module and the function.  [ok, f, err]
_import(item_path, is_module) ==
    IF is_module THEN import_module(item_path)
    ELSE LET parts == SplitDot(item_path.s)
             module == import_module(StrV(JoinWith(".", SubSeq(parts, 1, Len(parts) - 1))))
         IN
         IF Len(parts) < 2
         THEN [ok |-> FALSE, f |-> "",
               err |-> Raise("ValueError", "need more than 1 value to unpack", <<>>)]
         ELSE IF ~module.ok THEN module
         ELSE IF item_path.s \notin Importable
         THEN [ok |-> FALSE, f |-> "",
               err |-> Raise("AttributeError", "'module' object has no attribute", <<>>)]
         ELSE [ok |-> TRUE, f |-> item_path.s, err |-> NoErr]

\* the functions a SETUP directive can name that raise when called
SetupRaises == {"app.boom"}

(***************************************************************************)
(* rhc.config.Config.  A config object maps a dotted key to the default    *)
(* value, validator and environment variable it was defined with; value    *)
(* is replaced when the file 'config' sets the key.                        *)
(***************************************************************************)
ExistingFiles == {"key.pem"}
BoolTable == ("true" :> TRUE) @@ ("True" :> TRUE) @@ ("TRUE" :> TRUE) @@
             ("false" :> FALSE) @@ ("False" :> FALSE) @@ ("FALSE" :> FALSE)

\* config.validate_int, validate_bool, validate_file: [ok, v]
validate_int(v) ==
    CASE v.t = "int" -> [ok |-> TRUE, v |-> v]
      [] v.t = "str" /\ v.s \in DOMAIN IntTable -> [ok |-> TRUE, v |-> IntV(IntTable[v.s])]
      [] OTHER -> [ok |-> FALSE, v |-> v]

validate_bool(v) ==
    CASE v.t = "bool" -> [ok |-> TRUE, v |-> v]
      [] v.t = "str" /\ v.s \in DOMAIN BoolTable -> [ok |-> TRUE, v |-> BoolV(BoolTable[v.s])]
      [] OTHER -> [ok |-> FALSE, v |-> v]

validate_file(v) ==
    IF v.t = "str" /\ v.s \in ExistingFiles THEN [ok |-> TRUE, v |-> v]
    ELSE [ok |-> FALSE, v |-> v]

\* the validator of a key applied to a value; "" is no validator, and any
\* other name is a string the directive wrote, which cannot be called
Validate(validator, v) ==
    CASE validator = "int" -> validate_int(v)
      [] validator = "bool" -> validate_bool(v)
      [] validator = "file" -> validate_file(v)
      [] validator = "" -> [ok |-> TRUE, v |-> v]
      [] OTHER -> [ok |-> FALSE, v |-> v]

\* Config(): no key
Config == <<>>

\* Config._define(name, value=None, validator=None, env=None)
_define(cfg, name, value, validator, env) ==
    [k \in DOMAIN cfg \cup {name} |->
        IF k = name THEN [value |-> value, validator |-> validator, env |-> env]
        ELSE cfg[k]]

NoFile == [exists |-> FALSE, entries |-> <<>>, strict |-> FALSE]

RECURSIVE ConfigLoad(_, _, _)
\* Config._load(filename): apply the key=value lines of the file in order;
\* [cfg, err].  strict says whether a key that was never defined is rejected
ConfigLoad(cfg, entries, strict) ==
    IF entries = <<>> THEN [cfg |-> cfg, err |-> NoErr]
    ELSE LET e == Head(entries) IN
         IF e.key \notin DOMAIN cfg
         THEN IF strict
              THEN [cfg |-> cfg, err |-> Raise("Exception", "key not defined", <<>>)]
              ELSE ConfigLoad(cfg, Tail(entries), strict)
         ELSE LET r == Validate(cfg[e.key].validator, StrV(e.value)) IN
              IF ~r.ok
              THEN [cfg |-> cfg, err |-> Raise("Exception", "validation failed", <<>>)]
              ELSE ConfigLoad([cfg EXCEPT ![e.key].value = r.v], Tail(entries), strict)

\* the value of a key: the bound environment variable when it is set,
\* else the value the file or the definition gave; [ok, v]
ConfigGet(cfg, env, key) ==
    IF cfg[key].env # "" /\ cfg[key].env \in DOMAIN env
    THEN Validate(cfg[key].validator, StrV(env[cfg[key].env]))
    ELSE [ok |-> TRUE, v |-> cfg[key].value]

\* hasattr(config, name): some key is name or lies below it
HasSection(cfg, name) ==
    \E k \in DOMAIN cfg : SplitDot(k)[1] = name

\* getattr(config, name) as the object Server reads: attribute path below
\* name (joined with '.') -> key
SectionAttrs == {"port", "is_active", "handler", "ssl.is_active", "ssl.keyfile",
                 "ssl.certfile"}
Section(cfg, name) ==
    [a \in {a \in SectionAttrs : (name \o "." \o a) \in DOMAIN cfg} |-> name \o "." \o a]

(***************************************************************************)
(* Route and Server.                                                       *)
(***************************************************************************)
\* Route(pattern)
Route(pattern) == [pattern |-> pattern, method |-> <<>>]

\* Route.add(method, path): [ok, route, err]
Route_add(route, method, path) ==
    LET set(h) ==
            IF ~h.ok THEN [ok |-> FALSE, route |-> route, err |-> h.err]
            ELSE [ok |-> TRUE, err |-> NoErr,
                  route |-> [route EXCEPT !.method =
                                [m \in DOMAIN route.method \cup {method} |->
                                    IF m = method THEN h.f ELSE route.method[m]]]]
    IN  set(_import(StrV(path), FALSE))

\* RESTMapper.add(pattern, **methods): the mapper keeps its routes in order
mapper_add(mapper, route) == Append(mapper, route)

\* the config object a bare PORT directive passes to Server:
\* namedtuple('config', 'port')(port)
PortConfig(port) == [a \in {"port"} |-> [ok |-> TRUE, v |-> IntV(port)]]

\* the config section a SERVER directive passes to Server, each attribute
\* with its resolved value
SectionConfig(cfg, env, name) ==
    LET sec == Section(cfg, name) IN [a \in DOMAIN sec |-> ConfigGet(cfg, env, sec[a])]

\* Server(name, config): [ok, server, err].  The MicroContext built from
\* the http_* and hide_stack_trace attributes is left out: it is only
\* handed to the request handler.  hasattr answers False when the read of
\* the attribute raises, so is_active and handler then take their defaults;
\* port, ssl.is_active, ssl.keyfile and ssl.certfile are read without a
\* test, and the exception of the read leaves the constructor.
Server(name, config) ==
    LET has(a) == a \in DOMAIN config
        bad(a) == has(a) /\ ~config[a].ok
        hasattr(a) == has(a) /\ config[a].ok
        fail(e) == [ok |-> FALSE, server |-> <<>>, err |-> e]
        hasssl == \E a \in DOMAIN config : a \in {"ssl.is_active", "ssl.keyfile", "ssl.certfile"}
        val(a) == IF has(a) THEN config[a].v ELSE NoneV
        read(a) == IF ~has(a) THEN Raise("AttributeError", a, <<>>)
                   ELSE IF bad(a) THEN Raise("Exception", "validation failed", <<>>)
                   ELSE NoErr
        handler == IF hasattr("handler") THEN _import(val("handler"), TRUE)
                   ELSE [ok |-> TRUE, f |-> "MicroRESTHandler", err |-> NoErr]
    IN  IF read("port") # NoErr THEN fail(read("port"))
        ELSE IF val("port").t = "none"
        THEN fail(Raise("TypeError", "int() argument must be a string or a number", <<>>))
        ELSE IF ~int(val("port")).ok
        THEN fail(Raise("ValueError", "invalid literal for int()", <<>>))
        ELSE IF ~handler.ok THEN fail(handler.err)
        ELSE IF hasssl /\ read("ssl.is_active") # NoErr THEN fail(read("ssl.is_active"))
        ELSE IF hasssl /\ Truthy(val("ssl.is_active")) /\ read("ssl.keyfile") # NoErr
        THEN fail(read("ssl.keyfile"))
        ELSE IF hasssl /\ Truthy(val("ssl.is_active")) /\ read("ssl.certfile") # NoErr
        THEN fail(read("ssl.certfile"))
        ELSE [ok |-> TRUE, err |-> NoErr, server |->
              [name |-> name,
               mapper |-> <<>>,
               is_active |-> IF hasattr("is_active") THEN val("is_active") ELSE BoolV(TRUE),
               port |-> int(val("port")).i,
               handler |-> handler.f,
               ssl |-> IF hasssl /\ Truthy(val("ssl.is_active"))
                       THEN <<[keyfile |-> val("ssl.keyfile"), certfile |-> val("ssl.certfile")]>>
                       ELSE <<>>,
               route |-> <<>>]]

\* Server.add_route(pattern); route is <<>> while the server has no
\* attribute 'route'
Server_add_route(server, pattern) ==
    [server EXCEPT
        !.mapper = IF server.route # <<>> THEN mapper_add(@, server.route[1]) ELSE @,
        !.route = <<Route(pattern)>>]

\* Server.add_method(method, path): [ok, server, err]
Server_add_method(server, method, path) ==
    LET put(r) == [ok |-> r.ok, err |-> r.err,
                   server |-> [server EXCEPT !.route = <<r.route>>]]
    IN  put(Route_add(server.route[1], method, path))

\* SERVER.add_server(port, handler, mapper, ssl=ssl): the listener registry
\* raises for a port it cannot listen on, one that is in use outside the
\* process (busy_) or one it already listens on
add_server_ok(busy_, registered, port) ==
    port \notin busy_ /\ \A i \in 1..Len(registered) : registered[i].port # port

\* Server.done() without the test of is_active: every server is registered
Server_done_always(server, w, busy_) ==
    LET s1 == [server EXCEPT !.mapper =
                  IF server.route # <<>> THEN mapper_add(@, server.route[1]) ELSE @]
        w1 == [w EXCEPT !.finalized =
                  Append(@, [name |-> s1.name, port |-> s1.port,
                             active |-> Truthy(s1.is_active), mapper |-> s1.mapper])]
    IN
    IF add_server_ok(busy_, w.registered, s1.port)
    THEN [server |-> s1, err |-> NoErr,
          world |-> [w1 EXCEPT !.registered =
                        Append(@, [port |-> s1.port, name |-> s1.name,
                                   handler |-> s1.handler,
                                   mapper |-> s1.mapper, ssl |-> s1.ssl])]]
    ELSE [server |-> s1, world |-> w1,
          err |-> Raise("socket.error", "unable to add server", <<>>)]

\* Server.done(): [server, world, err]
Server_done(server, w, busy_) ==
    LET s1 == IF Truthy(server.is_active)
              THEN [server EXCEPT !.mapper =
                        IF server.route # <<>> THEN mapper_add(@, server.route[1]) ELSE @]
              ELSE server
        w1 == [w EXCEPT !.finalized =
                  Append(@, [name |-> s1.name, port |-> s1.port,
                             active |-> Truthy(s1.is_active), mapper |-> s1.mapper])]
    IN
    IF Truthy(server.is_active)
    THEN IF add_server_ok(busy_, w.registered, s1.port)
         THEN [server |-> s1, err |-> NoErr,
               world |-> [w1 EXCEPT !.registered =
                             Append(@, [port |-> s1.port, name |-> s1.name,
                                        handler |-> s1.handler,
                                        mapper |-> s1.mapper, ssl |-> s1.ssl])]]
         ELSE [server |-> s1, world |-> w1,
               err |-> Raise("socket.error", "unable to add server", <<>>)]
    ELSE [server |-> server, world |-> w1, err |-> NoErr]

(***************************************************************************)
(* _config_server and _config.                                             *)
(***************************************************************************)
\* _config_server passing the port as it is written, without int(port)
_config_server_str(cfg, line) ==
    LET ll == split(line) IN
    IF Len(ll) # 2
    THEN [ok |-> FALSE, cfg |-> cfg, keys |-> <<>>,
          err |-> Raise("ValueError", "values to unpack", <<>>)]
    ELSE LET name == Str(ll[1])
             c1 == _define(cfg, name \o ".port", StrV(Str(ll[2])), "int", "")
             c2 == _define(c1, name \o ".is_active", BoolV(TRUE), "bool", "")
             c3 == _define(c2, name \o ".ssl.is_active", BoolV(FALSE), "bool", "")
             c4 == _define(c3, name \o ".ssl.keyfile", NoneV, "file", "")
             c5 == _define(c4, name \o ".ssl.certfile", NoneV, "file", "")
         IN [ok |-> TRUE, cfg |-> c5, err |-> NoErr,
             keys |-> <<name \o ".port", name \o ".is_active",
                        name \o ".ssl.is_active", name \o ".ssl.keyfile",
                        name \o ".ssl.certfile">>]

\* [ok, cfg, keys, err]
_config_server(cfg, line) ==
    LET ll == split(line) IN
    IF Len(ll) # 2
    THEN [ok |-> FALSE, cfg |-> cfg, keys |-> <<>>,
          err |-> Raise("ValueError", "values to unpack", <<>>)]
    ELSE LET name == Str(ll[1])
             port == int(StrV(Str(ll[2])))
         IN IF ~port.ok
            THEN [ok |-> FALSE, cfg |-> cfg, keys |-> <<>>,
                  err |-> Raise("ValueError", "invalid literal for int()", <<>>)]
            ELSE LET c1 == _define(cfg, name \o ".port", IntV(port.i), "int", "")
                     c2 == _define(c1, name \o ".is_active", BoolV(TRUE), "bool", "")
                     c3 == _define(c2, name \o ".ssl.is_active", BoolV(FALSE), "bool", "")
                     c4 == _define(c3, name \o ".ssl.keyfile", NoneV, "file", "")
                     c5 == _define(c4, name \o ".ssl.certfile", NoneV, "file", "")
                 IN [ok |-> TRUE, cfg |-> c5, err |-> NoErr,
                     keys |-> <<name \o ".port", name \o ".is_active",
                                name \o ".ssl.is_active", name \o ".ssl.keyfile",
                                name \o ".ssl.certfile">>]

RECURSIVE Kwargs(_, _)
\* {n: v for n, v in (t.split('=', 1) for t in words)}: [ok, kw]
Kwargs(words, kw) ==
    IF words = <<>> THEN [ok |-> TRUE, kw |-> kw]
    ELSE LET t == split1(Head(words), "=") IN
         IF Len(t) # 2 THEN [ok |-> FALSE, kw |-> kw]
         ELSE Kwargs(Tail(words),
                     [k \in DOMAIN kw \cup {Str(t[1])} |->
                         IF k = Str(t[1]) THEN Str(t[2]) ELSE kw[k]])

\* _config storing the default as it is written, without the validator
_config_raw(cfg, line) ==
    LET fail(kind, msg) == [ok |-> FALSE, cfg |-> cfg, name |-> "",
                            err |-> Raise(kind, msg, <<>>)]
        \* the directive has keywords: k is what the comprehension gives
        define(name, k) ==
            LET has(a) == a \in DOMAIN k.kw
                validator == IF has("validate") THEN k.kw["validate"] ELSE ""
                raw == IF has("default") THEN StrV(k.kw["default"])
                       ELSE IF has("value") THEN StrV(k.kw["value"]) ELSE NoneV
                checked(value) ==
                    IF ~value.ok THEN fail("Exception", "validation failed")
                    ELSE IF DOMAIN k.kw \ {"validate", "validator", "default", "value", "env"}
                            # {}
                    THEN fail("TypeError", "unexpected keyword argument")
                    ELSE [ok |-> TRUE, err |-> NoErr, name |-> name,
                          cfg |-> _define(cfg, name, value.v, validator,
                                          IF has("env") THEN k.kw["env"] ELSE "")]
            IN  IF ~k.ok THEN fail("ValueError", "need more than 1 value to unpack")
                ELSE IF has("validate") /\ validator \notin {"int", "bool", "file"}
                THEN fail("Exception", "is not a recognized validation type")
                ELSE checked([ok |-> TRUE, v |-> raw])
        parsed(parts) ==
            IF Len(parts) = 2
            THEN define(Str(parts[1]), Kwargs(split(parts[2]), <<>>))
            ELSE [ok |-> TRUE, err |-> NoErr, name |-> Str(line),
                  cfg |-> _define(cfg, Str(line), NoneV, "", "")]
    IN  parsed(split1(line, " "))

\* [ok, cfg, name, err].  The keywords Config._define takes are value,
\* validator and env.  A validator that the directive spells itself
\* (validator=x without validate=) is the string x, written "str:x" here;
\* calling it on the default raises TypeError.
_config(cfg, line) ==
    LET fail(kind, msg) == [ok |-> FALSE, cfg |-> cfg, name |-> "",
                            err |-> Raise(kind, msg, <<>>)]
        \* the directive has keywords: k is what the comprehension gives
        define(name, k) ==
            LET has(a) == a \in DOMAIN k.kw
                validator == IF has("validate") THEN k.kw["validate"]
                             ELSE IF has("validator") THEN "str:" \o k.kw["validator"]
                             ELSE ""
                raw == IF has("default") THEN StrV(k.kw["default"])
                       ELSE IF has("value") THEN StrV(k.kw["value"]) ELSE NoneV
                checked(value) ==
                    IF ~value.ok THEN fail("Exception", "validation failed")
                    ELSE IF DOMAIN k.kw \ {"validate", "validator", "default", "value", "env"}
                            # {}
                    THEN fail("TypeError", "unexpected keyword argument")
                    ELSE [ok |-> TRUE, err |-> NoErr, name |-> name,
                          cfg |-> _define(cfg, name, value.v, validator,
                                          IF has("env") THEN k.kw["env"] ELSE "")]
            IN  IF ~k.ok THEN fail("ValueError", "need more than 1 value to unpack")
                ELSE IF has("validate") /\ validator \notin {"int", "bool", "file"}
                THEN fail("Exception", "is not a recognized validation type")
                ELSE IF has("default") /\ has("validate")
                THEN checked(Validate(validator, raw))
                ELSE IF has("default") /\ has("validator")
                THEN fail("TypeError", "object is not callable")
                ELSE checked([ok |-> TRUE, v |-> raw])
        parsed(parts) ==
            IF Len(parts) = 2
            THEN define(Str(parts[1]), Kwargs(split(parts[2]), <<>>))
            ELSE [ok |-> TRUE, err |-> NoErr, name |-> Str(line),
                  cfg |-> _define(cfg, Str(line), NoneV, "", "")]
    IN  parsed(split1(line, " "))

(***************************************************************************)
(* FSM.  state names the bound method in self.state; server is <<>> while  *)
(* the object has no attribute 'server'; teardown is "" for the no-op      *)
(* lambda.  A handler takes the FSM object f, the outside world w, the     *)
(* event and the environment E = [environ, override, busy], and gives      *)
(* [fsm, world, err]: the two as the handler left them, and the exception  *)
(* it raised, if any.                                                      *)
(***************************************************************************)
FSM == [state |-> "init", teardown |-> "", config |-> Config, config_keys |-> <<>>,
        ports |-> <<>>, server |-> <<>>, data |-> <<>>]

\* the world outside the FSM object, as a log of the calls made on it:
\*   registered      the successful SERVER.add_server calls
\*   setup_calls     the setup functions called
\*   config_loads    the number of Config._load('config') calls
\*   declared        the Server objects constructed
\*   finalized       the Server.done() calls, with the mapper each one left
\*   teardown_calls  the teardown functions called
\*   printed         what the entry point printed
NoWorld == [registered |-> <<>>, setup_calls |-> <<>>, config_loads |-> 0,
            declared |-> <<>>, finalized |-> <<>>, teardown_calls |-> <<>>,
            printed |-> <<>>]

Ret(f, w, e) == [fsm |-> f, world |-> w, err |-> e]

Methods == {"get", "post", "put", "delete"}

\* the log entry of a Server object that was constructed
Declare(w, server) ==
    [w EXCEPT !.declared = Append(@, [name |-> server.name, port |-> server.port,
                                      active |-> Truthy(server.is_active)])]

\* the event 'server' without the test of self.ports
open_server_untested(f, w, E) ==
    LET name == Str(f.data)
        open(server) ==
            Ret([f EXCEPT !.server = <<server>>,
                          !.ports = [p \in DOMAIN f.ports \cup {server.port} |->
                                        IF p = server.port THEN server.name
                                        ELSE f.ports[p]],
                          !.state = "server"], Declare(w, server), NoErr)
        made(s) == IF ~s.ok THEN Ret(f, w, s.err) ELSE open(s.server)
    IN  IF ~HasSection(f.config, name) THEN Ret(f, w, Raise("AttributeError", name, <<>>))
        ELSE made(Server(name, SectionConfig(f.config, E.environ, name)))

\* the event 'server' of state_init and, after the current server is done,
\* of state_route
open_server(f, w, E) ==
    LET name == Str(f.data)
        \* self.server = server; the test of self.ports; the new state
        open(server) ==
            IF server.port \in DOMAIN f.ports
            THEN Ret([f EXCEPT !.server = <<server>>], Declare(w, server),
                     Raise("Exception", "port already defined for server", <<>>))
            ELSE Ret([f EXCEPT !.server = <<server>>,
                               !.ports = [p \in DOMAIN f.ports \cup {server.port} |->
                                             IF p = server.port THEN server.name
                                             ELSE f.ports[p]],
                               !.state = "server"], Declare(w, server), NoErr)
        made(s) == IF ~s.ok THEN Ret(f, w, s.err) ELSE open(s.server)
    IN  IF ~HasSection(f.config, name) THEN Ret(f, w, Raise("AttributeError", name, <<>>))
        ELSE made(Server(name, SectionConfig(f.config, E.environ, name)))

\* the event 'port' of state_init and state_route; int() ignores the
\* whitespace around the digits
open_port(f, w, E) ==
    LET open(s) == Ret([f EXCEPT !.server = <<s>>, !.state = "server"], Declare(w, s), NoErr)
        made(port) ==
            IF ~port.ok THEN Ret(f, w, Raise("ValueError", "invalid literal for int()", <<>>))
            ELSE open(Server("default", PortConfig(port.i)).server)
    IN  made(int(StrV(Str(strip(f.data)))))

\* FSM.state_config for the events 'config' and 'config_server'
state_config_define(f, w, event) ==
    LET one(r) ==
            IF ~r.ok THEN Ret(f, w, r.err)
            ELSE Ret([f EXCEPT !.config = r.cfg, !.config_keys = Append(@, r.name)], w, NoErr)
        five(r) ==
            IF ~r.ok THEN Ret(f, w, r.err)
            ELSE Ret([f EXCEPT !.config = r.cfg, !.config_keys = @ \o r.keys], w, NoErr)
    IN  IF event = "config" THEN one(_config(f.config, f.data))
        ELSE five(_config_server(f.config, f.data))

\* FSM.state_init
state_init(f, w, event, E) ==
    IF event \in {"config", "config_server"}
    THEN state_config_define([f EXCEPT !.state = "config"], w, event)
    ELSE IF event = "setup"
    THEN LET call(h) ==
                 IF ~h.ok THEN Ret(f, w, h.err)
                 ELSE Ret(f, [w EXCEPT !.setup_calls = Append(@, h.f)],
                          IF h.f \in SetupRaises
                          THEN Raise("Exception", "setup failed", <<>>) ELSE NoErr)
         IN  call(_import(StrV(IF "MICRO_SETUP" \in DOMAIN E.environ
                               THEN E.environ["MICRO_SETUP"] ELSE Str(f.data)), FALSE))
    ELSE IF event = "teardown"
    THEN LET set(h) ==
                 IF ~h.ok THEN Ret(f, w, h.err) ELSE Ret([f EXCEPT !.teardown = h.f], w, NoErr)
         IN  set(_import(StrV(Str(f.data)), FALSE))
    ELSE IF event = "server" THEN open_server(f, w, E)
    ELSE IF event = "port" THEN open_port(f, w, E)
    ELSE IF event = "done" THEN Ret([f EXCEPT !.state = "done"], w, NoErr)
    ELSE Ret(f, w, Raise("Exception", "invalid record", <<>>))

\* FSM.state_config.  Config._load changes self.config in place: when it
\* raises, the entries it had applied stay
state_config(f, w, event, E) ==
    IF event \in {"config", "config_server"} THEN state_config_define(f, w, event)
    ELSE LET r == IF E.override.exists
                  THEN ConfigLoad(f.config, E.override.entries, E.override.strict)
                  ELSE [cfg |-> f.config, err |-> NoErr]
             w1 == IF E.override.exists THEN [w EXCEPT !.config_loads = @ + 1] ELSE w
         IN  IF r.err # NoErr THEN Ret([f EXCEPT !.config = r.cfg], w1, r.err)
             ELSE state_init([f EXCEPT !.config = r.cfg, !.state = "init"], w1, event, E)

\* FSM.state_server with an else branch that ignores the event
state_server_ignore(f, w, event, E) ==
    IF event = "route"
    THEN Ret([f EXCEPT !.server = <<Server_add_route(f.server[1], Str(f.data))>>,
                       !.state = "route"], w, NoErr)
    ELSE IF event = "done"
    THEN LET closed(d) ==
                 IF d.err # NoErr THEN Ret([f EXCEPT !.server = <<d.server>>], d.world, d.err)
                 ELSE Ret([f EXCEPT !.server = <<d.server>>, !.state = "done"], d.world, NoErr)
         IN  closed(Server_done(f.server[1], w, E.busy))
    ELSE Ret(f, w, NoErr)

\* FSM.state_server
state_server(f, w, event, E) ==
    IF event = "route"
    THEN Ret([f EXCEPT !.server = <<Server_add_route(f.server[1], Str(f.data))>>,
                       !.state = "route"], w, NoErr)
    ELSE IF event = "done"
    THEN LET closed(d) ==
                 IF d.err # NoErr THEN Ret([f EXCEPT !.server = <<d.server>>], d.world, d.err)
                 ELSE Ret([f EXCEPT !.server = <<d.server>>, !.state = "done"], d.world, NoErr)
         IN  closed(Server_done(f.server[1], w, E.busy))
    ELSE Ret(f, w, Raise("Exception", "invalid record", <<>>))

\* FSM.state_route without the call of server.done() on the events server
\* and port
state_route_drop(f, w, event, E) ==
    IF event \in Methods
    THEN LET added(r) ==
                 IF ~r.ok THEN Ret(f, w, r.err)
                 ELSE Ret([f EXCEPT !.server = <<r.server>>], w, NoErr)
         IN  added(Server_add_method(f.server[1], event, Str(f.data)))
    ELSE IF event = "route"
    THEN Ret([f EXCEPT !.server = <<Server_add_route(f.server[1], Str(f.data))>>], w, NoErr)
    ELSE IF event = "server" THEN open_server(f, w, E)
    ELSE IF event = "port" THEN open_port(f, w, E)
    ELSE IF event = "done"
    THEN LET closed(d) ==
                 IF d.err # NoErr THEN Ret([f EXCEPT !.server = <<d.server>>], d.world, d.err)
                 ELSE Ret([f EXCEPT !.server = <<d.server>>, !.state = "done"], d.world, NoErr)
         IN  closed(Server_done(f.server[1], w, E.busy))
    ELSE Ret(f, w, Raise("Exception", "invalid record", <<>>))

\* FSM.state_route
state_route(f, w, event, E) ==
    IF event \in Methods
    THEN LET added(r) ==
                 IF ~r.ok THEN Ret(f, w, r.err)
                 ELSE Ret([f EXCEPT !.server = <<r.server>>], w, NoErr)
         IN  added(Server_add_method(f.server[1], event, Str(f.data)))
    ELSE IF event = "route"
    THEN Ret([f EXCEPT !.server = <<Server_add_route(f.server[1], Str(f.data))>>], w, NoErr)
    ELSE IF event \in {"server", "port", "done"}
    THEN LET next(f1, w1) ==
                 IF event = "server" THEN open_server(f1, w1, E)
                 ELSE IF event = "port" THEN open_port(f1, w1, E)
                 ELSE Ret([f1 EXCEPT !.state = "done"], w1, NoErr)
             closed(d) ==
                 IF d.err # NoErr THEN Ret([f EXCEPT !.server = <<d.server>>], d.world, d.err)
                 ELSE next([f EXCEPT !.server = <<d.server>>], d.world)
         IN  closed(Server_done(f.server[1], w, E.busy))
    ELSE Ret(f, w, Raise("Exception", "invalid record", <<>>))

\* FSM.state_done
state_done(f, w, event, E) == Ret(f, w, Raise("Exception", "unexpected event", <<>>))

\* FSM.handle without the except clause: the exception of the state handler
\* leaves as it is
handle_bare(f, w, event, data, fname, linenum, E) ==
    LET f0 == [f EXCEPT !.data = data]
    IN  CASE f.state = "init" -> state_init(f0, w, event, E)
          [] f.state = "config" -> state_config(f0, w, event, E)
          [] f.state = "server" -> state_server(f0, w, event, E)
          [] f.state = "route" -> state_route(f0, w, event, E)
          [] f.state = "done" -> state_done(f0, w, event, E)

\* FSM.handle(event, data, fname, linenum): an exception of the state
\* handler is replaced by Exception('%s, line=%d of %s' % (e, linenum, fname))
handle(f, w, event, data, fname, linenum, E) ==
    LET f0 == [f EXCEPT !.data = data]
        except(r) ==
            IF r.err = NoErr THEN r
            ELSE [r EXCEPT !.err = [kind |-> "Exception", arg |-> r.err.arg,
                                    path |-> r.err.path,
                                    ctx |-> Append(r.err.ctx,
                                                   [line |-> linenum, file |-> fname])]]
    IN  except(CASE f.state = "init" -> state_init(f0, w, event, E)
                 [] f.state = "config" -> state_config(f0, w, event, E)
                 [] f.state = "server" -> state_server(f0, w, event, E)
                 [] f.state = "route" -> state_route(f0, w, event, E)
                 [] f.state = "done" -> state_done(f0, w, event, E))

(***************************************************************************)
(* parse.                                                                  *)
(***************************************************************************)
Env == [environ |-> environ, override |-> override, busy |-> busy]

\* the block under __main__ runs once
MainEntry == [point |-> "__main__", calls |-> 1]

\* the argument config_only of parse: load_config passes True whatever
\* sys.argv is, __main__ passes True for the subcommand config
config_only == entry.point = "load_config" \/ (argv # <<>> /\ argv[1] = "config")

NoResult == [kind |-> "none", sleep |-> NoneV, max_iterations |-> NoneV,
             teardown |-> "", config |-> Config, keys |-> <<>>]

\* a lexer that splits at the first run of whitespace and gives a single
\* token an empty value
lex_runs(l) ==
    LET l1 == strip(split1(l, "#")[1])
        ws == {i \in 1..Len(l1) : l1[i] \in Whitespace}
        i == IF ws = {} THEN Len(l1) + 1 ELSE CHOOSE k \in ws : \A j \in ws : k <= j
    IN  IF l1 = <<>> THEN [act |-> "skip", n |-> "", v |-> <<>>]
        ELSE [act |-> "event",
              n |-> Str([k \in 1..(i - 1) |-> lower(l1[k])]),
              v |-> lstrip(SubSeq(l1, i, Len(l1)))]

\* the lexer of parse: what the loop body makes of one physical line
\*   [act |-> "skip"]                  the line is blank after comment removal
\*   [act |-> "error"]                 the unpacking n, v = ... raises ValueError
\*   [act |-> "event", n, v]           the event (n, v)
lex(l) ==
    LET l1 == strip(split1(l, "#")[1])
        nv == split1(l1, " ")
    IN  IF l1 = <<>> THEN [act |-> "skip", n |-> "", v |-> <<>>]
        ELSE IF Len(nv) # 2 THEN [act |-> "error", n |-> "", v |-> <<>>]
        ELSE [act |-> "event", n |-> Str([i \in DOMAIN nv[1] |-> lower(nv[1][i])]), v |-> nv[2]]

\* parse without the test of config_only: no line is skipped
config_skip_never(only, n) == FALSE

\* if config_only and n not in ('config', 'config_server'): continue
config_skip(only, n) == only /\ n \notin {"config", "config_server"}

\* the history of a compilation: the events handed to FSM.handle; for each
\* server that was opened, the routes declared under it, each with the
\* methods declared while it was the open route; the names of the keys the
\* config directives declared
NoHist == [events |-> <<>>, routes |-> <<>>, keys |-> <<>>]

Record(h, n, v, ok) ==
    LET h1 == [h EXCEPT !.events = Append(@, n)]
        k == Len(h.routes)
        r == IF k > 0 THEN Len(h.routes[k]) ELSE 0
        w == split(v)
    IN  IF ~ok THEN h1
        ELSE IF n \in {"server", "port"} THEN [h1 EXCEPT !.routes = Append(@, <<>>)]
        ELSE IF n = "route"
        THEN [h1 EXCEPT !.routes[k] = Append(@, [pattern |-> Str(v), method |-> <<>>])]
        ELSE IF n \in Methods
        THEN [h1 EXCEPT !.routes[k][r].method =
                 [m \in DOMAIN @ \cup {n} |-> IF m = n THEN Str(v) ELSE @[m]]]
        ELSE IF n = "config" THEN [h1 EXCEPT !.keys = Append(@, Str(split1(v, " ")[1]))]
        ELSE IF n = "config_server"
        THEN [h1 EXCEPT !.keys = @ \o [i \in 1..5 |->
                 Str(w[1]) \o <<".port", ".is_active", ".ssl.is_active",
                                ".ssl.keyfile", ".ssl.certfile">>[i]]]
        ELSE h1

\* one iteration of the for loop of parse, on the element (fname, lnum, l)
Iterate(fname, lnum, l) ==
    LET handled(n, v, r) ==
            /\ fsm' = r.fsm
            /\ world' = r.world
            /\ err' = r.err
            /\ hist' = Record(hist, n, v, r.err = NoErr)
            /\ pc' = IF r.err = NoErr THEN "lex" ELSE "raised"
    IN  /\ last' = <<[fname |-> fname, lnum |-> lnum]>>
        /\ idx' = idx + 1
        /\ \E x \in {lex(l)} :
            IF x.act = "skip" \/ (x.act = "event" /\ config_skip(config_only, x.n))
            THEN UNCHANGED <<pc, fsm, world, err, hist>>
            ELSE IF x.act = "error"
            THEN /\ pc' = "raised"
                 /\ err' = Raise("ValueError", "need more than 1 value to unpack", <<>>)
                 /\ UNCHANGED <<fsm, world, hist>>
            ELSE handled(x.n, x.v, handle(fsm, world, x.n, x.v, fname, lnum, Env))

\* lines = _load(s); fsm = FSM()
Load ==
    /\ pc = "load"
    /\ LET r == _load(fs, Root, <<>>, <<>>, 1) IN
       IF r.err # NoErr
       THEN /\ pc' = "raised"
            /\ err' = r.err
            /\ UNCHANGED lines
       ELSE /\ pc' = "lex"
            /\ lines' = r.lines
            /\ UNCHANGED err
    /\ UNCHANGED <<fs, environ, override, busy, argv, entry, idx, last, fsm, world, result,
                   loop, hist>>

\* the loop of parse takes the next element of lines
LexLine ==
    /\ pc = "lex"
    /\ idx <= Len(lines)
    /\ Iterate(lines[idx].fname, lines[idx].lnum, lines[idx].l)
    /\ UNCHANGED <<fs, environ, override, busy, argv, entry, lines, result, loop>>

\* after the loop: fsm.handle('done', None, fname, lnum + 1) and the
\* return value.  fname and lnum are unbound when the loop never ran.
\* With a section loop, parse reads loop.sleep and then
\* loop.max_iterations: the read of a key that is not declared raises
\* AttributeError, the read of a value the validator rejects raises the
\* exception of the config object.
Finish ==
    /\ pc = "lex"
    /\ idx > Len(lines)
    /\ IF last = <<>>
       THEN /\ pc' = "raised"
            /\ err' = Raise("UnboundLocalError", "fname", <<>>)
            /\ UNCHANGED <<fsm, world, result, hist>>
       ELSE \E r \in {handle(fsm, world, "done", <<>>, last[1].fname, last[1].lnum + 1, Env)} :
            LET cfg == r.fsm.config
                haskey(k) == k \in DOMAIN cfg
                sleep == IF haskey("loop.sleep") THEN ConfigGet(cfg, environ, "loop.sleep")
                         ELSE [ok |-> FALSE, v |-> NoneV]
                maxit == IF haskey("loop.max_iterations")
                         THEN ConfigGet(cfg, environ, "loop.max_iterations")
                         ELSE [ok |-> FALSE, v |-> NoneV]
            IN  /\ fsm' = r.fsm
                /\ world' = r.world
                /\ hist' = Record(hist, "done", <<>>, r.err = NoErr)
                /\ IF r.err # NoErr
                   THEN pc' = "raised" /\ err' = r.err /\ UNCHANGED result
                   ELSE IF config_only
                   THEN /\ pc' = "returned"
                        /\ result' = [NoResult EXCEPT !.kind = "config",
                                                      !.config = r.fsm.config,
                                                      !.keys = r.fsm.config_keys]
                        /\ UNCHANGED err
                   ELSE IF ~HasSection(cfg, "loop")
                   THEN /\ pc' = "returned"
                        /\ result' = [NoResult EXCEPT !.kind = "control",
                                          !.sleep = IntV(100), !.max_iterations = IntV(100),
                                          !.teardown = r.fsm.teardown]
                        /\ UNCHANGED err
                   ELSE IF ~haskey("loop.sleep") \/ (sleep.ok /\ ~haskey("loop.max_iterations"))
                   THEN /\ pc' = "raised"
                        /\ err' = Raise("AttributeError", "loop", <<>>)
                        /\ UNCHANGED result
                   ELSE IF ~sleep.ok \/ ~maxit.ok
                   THEN /\ pc' = "raised"
                        /\ err' = Raise("Exception", "validation failed", <<>>)
                        /\ UNCHANGED result
                   ELSE /\ pc' = "returned"
                        /\ result' = [NoResult EXCEPT !.kind = "control",
                                          !.sleep = sleep.v, !.max_iterations = maxit.v,
                                          !.teardown = r.fsm.teardown]
                        /\ UNCHANGED err
    /\ UNCHANGED <<fs, environ, override, busy, argv, entry, lines, idx, last, loop>>

(***************************************************************************)
(* run and the entry point.                                                *)
(***************************************************************************)
\* what a call of SERVER.service or TIMERS.service can do: return, or raise
\* an Exception, a KeyboardInterrupt, or another BaseException (SystemExit)
Outcomes == {"ok", "Exception", "KeyboardInterrupt", "SystemExit"}

\* run with a bare except in place of 'except Exception'
run_except_all(raised) ==
    IF raised = "KeyboardInterrupt" THEN "break" ELSE "continue"

\* the except clauses of run: what happens to an exception raised in the
\* try block
run_except(raised) ==
    CASE raised = "KeyboardInterrupt" -> "break"
      [] raised = "Exception" -> "continue"
      [] OTHER -> "propagate"

\* where an outcome of the try block of run leads
after(raised) ==
    CASE raised = "ok" -> "run"
      [] run_except(raised) = "continue" -> "run"
      [] run_except(raised) = "break" -> "teardown"
      [] OTHER -> "crashed"

\* sleep/1000.0 can be evaluated: sleep is a number
Number(v) == v.t \in {"int", "bool"}

\* a cycle of the while loop of run, up to the return of SERVER.service:
\* the argument sleep/1000.0 is evaluated inside the try block, and raises
\* TypeError before anything is serviced when sleep is no number
RunCycle ==
    /\ pc = "run"
    /\ IF ~Number(result.sleep)
       THEN /\ loop' = [serviced |-> <<>>, raised |-> "Exception"]
            /\ pc' = after("Exception")
       ELSE \E s \in Outcomes :
            /\ loop' = [serviced |-> <<"SERVER">>, raised |-> s]
            /\ pc' = IF s = "ok" THEN "timers" ELSE after(s)
    /\ UNCHANGED <<fs, environ, override, busy, argv, entry, lines, idx, last, fsm, world,
                   err, result, hist>>

\* the rest of the cycle: TIMERS.service()
RunTimers ==
    /\ pc = "timers"
    /\ \E t \in Outcomes :
        /\ loop' = [serviced |-> <<"SERVER", "TIMERS">>, raised |-> t]
        /\ pc' = after(t)
    /\ UNCHANGED <<fs, environ, override, busy, argv, entry, lines, idx, last, fsm, world,
                   err, result, hist>>

\* __main__, run mode: control = parse('micro') returned; run(...) is entered
MainRun ==
    /\ pc = "returned"
    /\ entry.point = "__main__"
    /\ ~config_only
    /\ pc' = "run"
    /\ UNCHANGED <<fs, environ, override, busy, argv, entry, lines, idx, last, fsm, world,
                   err, result, loop, hist>>

\* __main__, run mode: parse raised; control = None, the error is printed
MainError ==
    /\ pc = "raised"
    /\ entry.point = "__main__"
    /\ ~config_only
    /\ pc' = "exit"
    /\ world' = [world EXCEPT !.printed = Append(@, <<err.kind, err.arg>>)]
    /\ UNCHANGED <<fs, environ, override, busy, argv, entry, lines, idx, last, fsm,
                   err, result, loop, hist>>

RECURSIVE print_keys(_, _, _)
\* the for loop over cfg.keys: each key is read and printed with its value,
\* None as ''; a read that raises ends the loop and the process.
\* [ok, out]
print_keys(cfg, env, keys) ==
    IF keys = <<>> THEN [ok |-> TRUE, out |-> <<>>]
    ELSE LET r == ConfigGet(cfg, env, Head(keys))
             rest == print_keys(cfg, env, Tail(keys))
         IN  IF ~r.ok THEN [ok |-> FALSE, out |-> <<>>]
             ELSE [ok |-> rest.ok,
                   out |-> <<<<Head(keys), IF r.v = NoneV THEN StrV("") ELSE r.v>>>> \o rest.out]

\* cfg.config._get(sys.argv[2]) and the print of its value, a false value
\* as ''.  [ok, out]
print_key(cfg, env, key) ==
    IF key \notin DOMAIN cfg THEN [ok |-> FALSE, out |-> <<>>]
    ELSE LET r == ConfigGet(cfg, env, key) IN
         IF ~r.ok THEN [ok |-> FALSE, out |-> <<>>]
         ELSE [ok |-> TRUE, out |-> <<<<IF Truthy(r.v) THEN r.v ELSE StrV("")>>>>]

\* __main__, config mode: the exception of parse ends the process; else
\* the key named on the command line is printed, or every key
MainConfig ==
    /\ pc \in {"returned", "raised"}
    /\ entry.point = "__main__"
    /\ config_only
    /\ IF pc = "raised"
       THEN pc' = "crashed" /\ UNCHANGED world
       ELSE LET out(p) == /\ pc' = IF p.ok THEN "exit" ELSE "crashed"
                          /\ world' = [world EXCEPT !.printed = @ \o p.out]
            IN  IF Len(argv) > 1 THEN out(print_key(result.config, environ, argv[2]))
                ELSE out(print_keys(result.config, environ, result.keys))
    /\ UNCHANGED <<fs, environ, override, busy, argv, entry, lines, idx, last, fsm,
                   err, result, loop, hist>>

\* load_config: parse('micro', config_only=True) returned and its config is
\* handed to the caller, or its exception reaches the caller.  The caller
\* may call again: the files are unchanged, so _load returns the same
\* list, and parse starts over with a new FSM in the same process.
LoadConfig ==
    /\ pc \in {"returned", "raised"}
    /\ entry.point = "load_config"
    /\ IF pc = "raised"
       THEN pc' = "crashed" /\ UNCHANGED <<entry, idx, last, fsm, err, result>>
       ELSE \/ pc' = "exit" /\ UNCHANGED <<entry, idx, last, fsm, err, result>>
            \/ /\ entry.calls < MaxCalls
               /\ entry' = [entry EXCEPT !.calls = @ + 1]
               /\ pc' = "lex"
               /\ idx' = 1
               /\ last' = <<>>
               /\ fsm' = FSM
               /\ result' = NoResult
               /\ UNCHANGED err
    /\ UNCHANGED <<fs, environ, override, busy, argv, lines, world, loop, hist>>

\* __main__ calling control.teardown() without leaving
Teardown_again ==
    /\ pc = "teardown"
    /\ world' = [world EXCEPT !.teardown_calls = Append(@, result.teardown)]
    /\ UNCHANGED <<fs, environ, override, busy, argv, entry, pc, lines, idx, last, fsm,
                   err, result, loop, hist>>

\* __main__, run mode: control.teardown() after run returned
Teardown ==
    /\ pc = "teardown"
    /\ world' = [world EXCEPT !.teardown_calls = Append(@, result.teardown)]
    /\ pc' = "exit"
    /\ UNCHANGED <<fs, environ, override, busy, argv, entry, lines, idx, last, fsm,
                   err, result, loop, hist>>

(***************************************************************************)
(* Inputs.                                                                 *)
(***************************************************************************)
RECURSIVE Words(_)
\* the line that spells the given words with one blank between them
Words(ws) == IF Len(ws) = 1 THEN ws[1] ELSE ws[1] \o <<" ">> \o Words(Tail(ws))

W2(a, b) == <<a, " ", b>>

\* the physical lines a directive stream is made of
DirectiveLines ==
    { Words(<< <<"CONFIG">>, <<"loop.sleep">>, <<"default", "=", "5">>,
               <<"validate", "=", "int">>, <<"env", "=", "SLEEP">> >>),
      Words(<< <<"CONFIG">>, <<"loop.max_iterations">>, <<"default", "=", "7">>,
               <<"validate", "=", "int">> >>),
      Words(<< <<"CONFIG">>, <<"loop.sleep">>, <<"default", "=", "5">> >>),
      Words(<< <<"config_server">>, <<"s">>, <<"1">> >>),
      W2("SETUP", "app.setup"),
      W2("TEARDOWN", "app.stop"),
      W2("PORT", "1"),
      W2("Port", "2"),
      W2("SERVER", "s"),
      W2("ROUTE", "/a"),
      W2("ROUTE", "/b"),
      W2("GET", "h.ping"),
      W2("PUT", "h.pong"),
      W2("POST", "h.missing"),
      W2("GET", "h.pong"),
      W2("DONE", "x") }

Environments == { <<>>, "MICRO_SETUP" :> "app.boom", "SLEEP" :> "7", "SLEEP" :> "x" }

Overrides ==
    { NoFile,
      [exists |-> TRUE, strict |-> FALSE,
       entries |-> <<[key |-> "s.is_active", value |-> "false"],
                     [key |-> "loop.sleep", value |-> "2"]>>],
      [exists |-> TRUE, strict |-> TRUE,
       entries |-> <<[key |-> "s.is_active", value |-> "false"],
                     [key |-> "loop.sleep", value |-> "2"]>>] }

BusyPorts == { {}, {2} }

Argvs == { <<>>, <<"config">> }

NoLoop == [serviced |-> <<>>, raised |-> "none"]

\* the state in which parse has called _load and built the FSM
InitParse ==
    /\ environ \in Environments
    /\ override \in Overrides
    /\ busy \in BusyPorts
    /\ argv \in Argvs
    /\ entry = MainEntry
    /\ lines = <<>>
    /\ idx = 1
    /\ last = <<>>
    /\ fsm = FSM
    /\ world = NoWorld
    /\ err = NoErr
    /\ result = NoResult
    /\ loop = NoLoop
    /\ hist = NoHist

(***************************************************************************)
(* Spec: the entry point over every directive stream.  The specification   *)
(* begins where _load has returned; the list it returned is revealed one   *)
(* element per iteration of the loop of parse (ReadLine), all of it from   *)
(* the file 'micro', and is complete when Finish runs.                     *)
(***************************************************************************)
Unread == <<>>

Init ==
    /\ fs = Unread
    /\ pc = "lex"
    /\ InitParse

ReadLine ==
    /\ pc = "lex"
    /\ idx > Len(lines)
    /\ idx <= MaxStream
    /\ \E l \in DirectiveLines : Iterate(Root, idx, l)
    /\ UNCHANGED <<fs, environ, override, busy, argv, entry, lines, result, loop>>

Next ==
    ReadLine \/ Finish \/ MainRun \/ MainError \/ MainConfig \/ RunCycle \/ RunTimers \/ Teardown

Spec == Init /\ [][Next]_vars

(***************************************************************************)
(* SpecLoad: the entry point in run mode over every small set of files,    *)
(* with _load run on them.  The files are 'micro' and 'b' in the working   *)
(* directory and 'c' in its subdirectory 'sub'.                            *)
(***************************************************************************)
FileB == <<"b">>
FileC == <<"sub", "c">>
Files == {Root, FileB, FileC}

ImportB == W2("IMPORT", "b")
ImportC == W2("import", "sub/c")
ImportDotted == W2("IMPORT", "sub.c")

\* the physical lines the files are made of
LoadLines ==
    { ImportB,
      ImportC,
      ImportDotted,
      W2("IMPORT", "micro"),
      W2("Import", "../micro"),
      W2("PORT", "1"),
      <<"#", "note">> }

Lengths == {d \in [Files -> 0..MaxTotalLines] : d[Root] + d[FileB] + d[FileC] <= MaxTotalLines}

Holds(f, l) == \E p \in DOMAIN f : InSeq(l, f[p])

\* f is a file system within the bound; a file that no line imports is
\* never opened, so it is left empty, and a package that no line names is
\* never looked for, so it is left out
IsFileSystem(f) ==
    /\ f[FileB] # <<>> => Holds(f, ImportB)
    /\ f[FileC] # <<>> => Holds(f, ImportC) \/ Holds(f, ImportDotted)
    /\ Package("sub") \in DOMAIN f => Holds(f, ImportDotted)

InitLoad ==
    /\ \E d \in Lengths :
         \E a \in [1..d[Root] -> LoadLines], b \in [1..d[FileB] -> LoadLines],
            c \in [1..d[FileC] -> LoadLines] :
            \E files \in {Files, Files \cup {Package("sub")}} :
            /\ fs = [p \in files |-> IF p = Root THEN a ELSE IF p = FileB THEN b
                                     ELSE IF p = FileC THEN c ELSE <<>>]
            /\ IsFileSystem(fs)
    /\ pc = "load"
    /\ environ = <<>>
    /\ override = NoFile
    /\ busy = {}
    /\ argv = <<>>
    /\ entry = MainEntry
    /\ lines = <<>>
    /\ idx = 1
    /\ last = <<>>
    /\ fsm = FSM
    /\ world = NoWorld
    /\ err = NoErr
    /\ result = NoResult
    /\ loop = NoLoop
    /\ hist = NoHist

NextLoad ==
    Load \/ LexLine \/ Finish \/ MainRun \/ MainError \/ RunCycle \/ RunTimers \/ Teardown

SpecLoad == InitLoad /\ [][NextLoad]_vars

(***************************************************************************)
(* SpecLex: the entry point over a stream of one physical line made of     *)
(* any tokens, to exercise the lexer of parse.                             *)
(***************************************************************************)
MaxLine == 4            \* tokens of the line (SpecLex)

LexTokens == {" ", "\t", "#", "Port", "1", "CONFIG"}

\* the command lines of SpecLex: those of Spec, and the subcommand config
\* with a key
LexArgvs == Argvs \cup { <<"config", "Port">> }

\* who calls parse: the block under __main__, or a program that imports
\* the module and calls load_config
Entries == { MainEntry, [point |-> "load_config", calls |-> 1] }

\* the file 'config' of SpecLex
LexOverrides ==
    { NoFile, [exists |-> TRUE, strict |-> FALSE,
               entries |-> <<[key |-> "Port", value |-> "2"]>>] }

\* the sequences of at most n elements of S
UpTo(S, n) == UNION {[1..k -> S] : k \in 0..n}

InitLex ==
    /\ fs = Unread
    /\ pc = "lex"
    /\ environ = <<>>
    /\ override \in LexOverrides
    /\ busy = {}
    /\ argv \in LexArgvs
    /\ entry \in Entries
    /\ entry.point = "load_config" => argv = <<>>
    /\ \E l \in UpTo(LexTokens, MaxLine) : lines = <<[fname |-> Root, lnum |-> 1, l |-> l]>>
    /\ idx = 1
    /\ last = <<>>
    /\ fsm = FSM
    /\ world = NoWorld
    /\ err = NoErr
    /\ result = NoResult
    /\ loop = NoLoop
    /\ hist = NoHist

NextLex ==
    \/ LexLine \/ Finish \/ MainRun \/ MainError \/ MainConfig \/ LoadConfig
    \/ RunCycle \/ RunTimers \/ Teardown

SpecLex == InitLex /\ [][NextLex]_vars

(***************************************************************************)
(* Properties of the compilation of a directive stream (Spec).             *)
(***************************************************************************)
ConfigEvents == {"config", "config_server"}

\* parse raised
Failed == err # NoErr

\* a config event was dispatched after an event of another kind
ConfigAfterOther ==
    \E i, j \in 1..Len(hist.events) :
        i < j /\ hist.events[i] \notin ConfigEvents /\ hist.events[j] \in ConfigEvents

\* C1: in a full compilation, once a CONFIG or CONFIG_SERVER directive has
\* been dispatched after a directive of another kind, the compilation has
\* failed with the error of an event that is invalid for the state.
C1_ConfigAfterOtherFails ==
    (~config_only /\ ConfigAfterOther) => (Failed /\ err.arg = "invalid record")

\* two Server objects were constructed with the same port
SamePortTwice ==
    \E i, j \in 1..Len(world.declared) :
        i < j /\ world.declared[i].port = world.declared[j].port

\* the loop of parse is over: parse has returned or raised
Compiled == pc \notin {"load", "lex"}

\* C2: a compilation in which two server declarations (SERVER or PORT)
\* resolved to the same port ends in the duplicate-port error: parse
\* returns nothing and the run loop is not entered.
C2_SamePortFails ==
    (SamePortTwice /\ Compiled) =>
        /\ Failed /\ err.arg = "port already defined for server"
        /\ result = NoResult
        /\ loop = NoLoop

Ids(log) == [i \in 1..Len(log) |-> [name |-> log[i].name, port |-> log[i].port]]

IsActive(d) == d.active

\* the servers SERVER.add_server accepted, and the declared servers whose
\* active flag is true, both in order
RegisteredIds == Ids(world.registered)
ActiveDeclaredIds == Ids(SelectSeq(world.declared, IsActive))

IsPrefix(s, t) == Len(s) <= Len(t) /\ SubSeq(t, 1, Len(s)) = s

\* C3 as stated: a failed compilation has registered no server, and a
\* successful one has registered every active declared server.
C3_NoPartialStartup ==
    /\ Failed => world.registered = <<>>
    /\ result.kind = "control" => RegisteredIds = ActiveDeclaredIds

\* C3 as amended: a failed compilation never enters the run loop, and the
\* servers it has registered are the leading active declared servers (those
\* finalized before the failing event); a successful compilation has
\* registered every active declared server, in declaration order.
C3_FailureKeepsFinalized ==
    /\ Failed => /\ pc \in {"raised", "exit", "crashed"}
                 /\ loop = NoLoop
                 /\ IsPrefix(RegisteredIds, ActiveDeclaredIds)
    /\ result.kind = "control" => RegisteredIds = ActiveDeclaredIds

\* a compilation that failed after it had registered a server and declared
\* another one
C3_Witness ==
    Failed /\ Len(world.registered) >= 1 /\ Len(world.declared) >= 2

(***************************************************************************)
(* Properties of the source loader (SpecLoad).                             *)
(***************************************************************************)
RECURSIVE RefLoad(_, _, _, _)
RECURSIVE RefLoadFor(_, _, _, _, _, _)

\* the expansion the loader is to compute: an IMPORT line is replaced by
\* the expansion of its target, every other line is kept with its file and
\* line number; stack holds the files that are being expanded, and only a
\* file met again while it is on the stack is a cycle.  [err, lines]
RefLoadFor(f, fname, content, n, stack, lines_) ==
    IF n > Len(content) THEN [err |-> NoErr, lines |-> lines_]
    ELSE LET ll == split(content[n])
             target(t) ==
                 IF ~t.ok
                 THEN [err |-> Raise("ImportError", "No module named", t.path),
                       lines |-> lines_]
                 ELSE LET r == RefLoad(f, t.path, stack, lines_) IN
                      IF r.err # NoErr THEN r
                      ELSE RefLoadFor(f, fname, content, n + 1, stack, r.lines)
         IN IF Len(ll) > 1 /\ lower(Str(ll[1])) = "import"
            THEN target(import_target(f,
                     JoinWith(" ", [i \in 1..(Len(ll) - 1) |-> Str(ll[i + 1])]),
                     dirname(fname)))
            ELSE RefLoadFor(f, fname, content, n + 1, stack,
                            Append(lines_, [fname |-> fname, lnum |-> n, l |-> content[n]]))

RefLoad(f, fname, stack, lines_) ==
    IF ~CanOpen(f, fname)
    THEN [err |-> Raise("IOError", "No such file or directory", fname), lines |-> lines_]
    ELSE IF Resolve(f, fname) \in stack
    THEN [err |-> Raise("CyclicImport", "cycle", fname), lines |-> lines_]
    ELSE RefLoadFor(f, fname, readlines(f, fname), 1, stack \cup {Resolve(f, fname)}, lines_)

\* the expansion of the root file
Expansion == RefLoad(fs, Root, {}, <<>>)

\* _load has run
Loaded == pc # "load"

\* _load raised: the errors of _load are not wrapped by FSM.handle, and no
\* event has been dispatched
LoadFailed ==
    /\ Loaded /\ Failed /\ err.ctx = <<>>
    /\ err.kind \in {"Exception", "RuntimeError", "IOError", "ImportError"}

\* C4: when the files reachable from the root form no import cycle and
\* every import target exists, the loader succeeds and its stream is the
\* expansion of the root, with the lines of a file that is imported more
\* than once repeated for each import.
C4_RepeatedImportExpands ==
    (Loaded /\ Expansion.err = NoErr) => (~LoadFailed /\ lines = Expansion.lines)

\* C5: when a file is reached again while it is being expanded, the loader
\* fails with the cyclic-import error, naming a path, and no event is
\* dispatched to the FSM.
C5_CycleIsReported ==
    (Loaded /\ Expansion.err.kind = "CyclicImport") =>
        /\ LoadFailed
        /\ err.arg = "cannot be recursively imported"
        /\ err.path # <<>>
        /\ hist.events = <<>>

(***************************************************************************)
(* Properties of the compilation and of the entry point (Spec).            *)
(***************************************************************************)
\* the number of events of the history that are not config events
RECURSIVE OtherEvents(_)
OtherEvents(es) ==
    IF es = <<>> THEN 0
    ELSE (IF Head(es) \in ConfigEvents THEN 0 ELSE 1) + OtherEvents(Tail(es))

\* C6: when the override file exists it is loaded exactly once, at the
\* first event that is not a config event (the final done included): not
\* before such an event, and never a second time.
C6_OverrideLoadedOnce ==
    override.exists =>
        world.config_loads = (IF OtherEvents(hist.events) > 0 THEN 1 ELSE 0)

Front(q) == SubSeq(q, 1, Len(q) - 1)

\* C7: every finalized server holds each route declared under it exactly
\* once, in the order of declaration, each with the methods declared while
\* it was the open route, the last handler declared for a method winning.
C7_RouteTable ==
    \A i \in 1..Len(world.finalized) : world.finalized[i].mapper = hist.routes[i]

\* where the code departs from it: Server.done closes the open route only
\* when the active flag is true, so a finalized server whose flag is false
\* lacks its last route; the tables of the other servers are as declared
ActiveRouteTable ==
    \A i \in 1..Len(world.finalized) :
        world.finalized[i].mapper =
            (IF world.finalized[i].active THEN hist.routes[i] ELSE Front(hist.routes[i]))

RECURSIVE OnlyConfigThenDone(_)
\* config events, then at most the final done
OnlyConfigThenDone(es) ==
    \/ es = <<>>
    \/ Head(es) \in ConfigEvents /\ OnlyConfigThenDone(Tail(es))
    \/ es = <<"done">>

\* C8: in config-only mode no setup function is called, no teardown
\* function is stored, no server or route is opened, no listener is
\* registered; the events dispatched are config events followed by the
\* final done, and the keys returned are the names the config directives
\* registered, in order (one per CONFIG, five per CONFIG_SERVER).
C8_ConfigOnlyFrame ==
    config_only =>
        /\ world.setup_calls = <<>>
        /\ fsm.teardown = "" /\ result.teardown = ""
        /\ fsm.server = <<>> /\ world.declared = <<>> /\ world.finalized = <<>>
        /\ world.registered = <<>>
        /\ OnlyConfigThenDone(hist.events)
        /\ result.kind # "control"
        /\ result.kind = "config" => result.keys = hist.keys

\* a config-only compilation of three lines returned six keys: the line
\* that is not a config directive was skipped
C8_Witness ==
    config_only /\ result.kind = "config" /\ Len(result.keys) = 6 /\ idx = 4

\* the step is one of the run loop, and services the registry first and
\* the timers only after the registry returned
ServicedInOrder ==
    \/ pc = "run" /\ loop'.serviced = <<"SERVER">>
    \/ /\ pc = "timers" /\ loop = [serviced |-> <<"SERVER">>, raised |-> "ok"]
       /\ loop'.serviced = <<"SERVER", "TIMERS">>

\* the program is in the while loop of run
InLoop == pc \in {"run", "timers"}

\* the cycle is over: it raised, or the timers returned
CycleEnds == loop'.raised # "ok" \/ pc = "timers"

\* the timers are not serviced in a cycle before the registry returned
TimersNotFirst ==
    \/ pc = "run" /\ loop'.serviced \in {<<>>, <<"SERVER">>}
    \/ /\ pc = "timers" /\ loop = [serviced |-> <<"SERVER">>, raised |-> "ok"]
       /\ loop'.serviced = <<"SERVER", "TIMERS">>

\* C9 as stated: in each cycle the registry is serviced before the timers;
\* a cycle goes on to the next cycle unless an interrupt was raised, which
\* ends the loop.
C9_OnlyInterruptEnds ==
    [][InLoop =>
         (TimersNotFirst /\
          pc' = (IF loop'.raised = "KeyboardInterrupt" THEN "teardown"
                 ELSE IF CycleEnds THEN "run" ELSE "timers"))]_vars

\* C9 as amended: when sleep is a number, the registry is serviced before
\* the timers; when it is not, the cycle raises a TypeError before anything
\* is serviced.  A cycle that raises nothing or an Exception goes on to the
\* next cycle, a KeyboardInterrupt ends the loop, and an exception that is
\* neither (SystemExit) leaves run and ends the process.
C9_ExceptionContinues ==
    [][InLoop =>
         ((IF Number(result.sleep) THEN ServicedInOrder
           ELSE pc = "run" /\ loop' = [serviced |-> <<>>, raised |-> "Exception"]) /\
          pc' = (CASE loop'.raised = "KeyboardInterrupt" -> "teardown"
                   [] loop'.raised = "Exception" -> "run"
                   [] loop'.raised = "ok" -> (IF CycleEnds THEN "run" ELSE "timers")
                   [] OTHER -> "crashed"))]_vars

\* the loop went on after a cycle in which the timers raised an Exception
C9_Witness ==
    pc = "run" /\ loop.raised = "Exception" /\ loop.serviced = <<"SERVER", "TIMERS">>

\* what C10 says of the compilation: nothing is invoked before run has
\* returned, nothing is invoked twice, and a failed compilation neither
\* enters the loop nor invokes the teardown function
TeardownNotEarly ==
    /\ pc \in {"load", "lex", "raised", "returned", "run", "timers", "teardown"} =>
           world.teardown_calls = <<>>
    /\ Len(world.teardown_calls) <= 1
    /\ world.teardown_calls # <<>> =>
           loop # NoLoop /\ world.teardown_calls = <<fsm.teardown>>
    /\ Failed => loop = NoLoop /\ world.teardown_calls = <<>>

\* C10 as stated: the teardown function is not invoked during the
\* compilation, and is invoked exactly once after the run loop has exited;
\* a failed compilation neither enters the loop nor invokes it.
C10_TeardownOnce ==
    /\ TeardownNotEarly
    /\ (loop # NoLoop /\ pc \in {"exit", "crashed"}) => Len(world.teardown_calls) = 1

\* C10 as amended: the teardown function is not invoked during the
\* compilation; it is invoked exactly once after the run loop was ended by
\* a KeyboardInterrupt, and not at all when an exception left run; a
\* failed compilation neither enters the loop nor invokes it.
C10_TeardownAfterInterrupt ==
    /\ TeardownNotEarly
    /\ (loop # NoLoop /\ pc \in {"exit", "crashed"}) =>
           Len(world.teardown_calls) = (IF loop.raised = "KeyboardInterrupt" THEN 1 ELSE 0)

\* the process ended after the function of a TEARDOWN directive was invoked
C10_Witness ==
    pc = "exit" /\ world.teardown_calls = <<"app.stop">>

(***************************************************************************)
(* Properties of the config schema (Spec).                                 *)
(***************************************************************************)
\* the step dispatched the event n and its handler returned
Handled(n) == hist'.events = Append(hist.events, n) /\ err' = NoErr

\* what a key was defined with
Defined(value, validator, env) == [value |-> value, validator |-> validator, env |-> env]

\* the five keys of the server name, in the order of the directive
ServerKeys(name) ==
    <<name \o ".port", name \o ".is_active", name \o ".ssl.is_active",
      name \o ".ssl.keyfile", name \o ".ssl.certfile">>

Range(q) == {q[i] : i \in 1..Len(q)}

\* C11: a step that handles CONFIG_SERVER <name> <port> registers exactly
\* the five keys <name>.port (int, the port as an integer), <name>.is_active
\* (bool, true), <name>.ssl.is_active (bool, false), <name>.ssl.keyfile and
\* <name>.ssl.certfile (file, no default), appends the five names to the
\* key list in that order, and leaves every other key as it was.
C11_FiveServerKeys ==
    [][Handled("config_server") =>
         LET w == split(fsm'.data)
             name == Str(w[1])
             ks == ServerKeys(name)
         IN  /\ Len(w) = 2
             /\ fsm'.config_keys = fsm.config_keys \o ks
             /\ DOMAIN fsm'.config = DOMAIN fsm.config \cup Range(ks)
             /\ fsm'.config[ks[1]] = Defined(IntV(IntTable[Str(w[2])]), "int", "")
             /\ fsm'.config[ks[2]] = Defined(BoolV(TRUE), "bool", "")
             /\ fsm'.config[ks[3]] = Defined(BoolV(FALSE), "bool", "")
             /\ fsm'.config[ks[4]] = Defined(NoneV, "file", "")
             /\ fsm'.config[ks[5]] = Defined(NoneV, "file", "")
             /\ \A k \in DOMAIN fsm.config \ Range(ks) : fsm'.config[k] = fsm.config[k]]_vars

\* a CONFIG_SERVER directive was handled after a CONFIG directive
C11_Witness ==
    /\ ~Failed
    /\ hist.events = <<"config", "config_server">>
    /\ fsm.config_keys = <<"loop.sleep">> \o ServerKeys("s")

\* the value of the keyword k in the text v of a CONFIG directive, as a
\* sequence of at most one string
Arg(v, k) ==
    LET at == {i \in 2..(Len(v) - 2) : v[i] = k /\ v[i + 1] = "=" /\ v[i - 1] = " "}
    IN  IF at = {} THEN <<>> ELSE <<v[(CHOOSE i \in at : TRUE) + 2]>>

\* the value a validator makes of a string
Typed(validator, x) ==
    CASE validator = "int" -> IntV(IntTable[x])
      [] validator = "bool" -> BoolV(BoolTable[x])
      [] OTHER -> StrV(x)

\* what a CONFIG directive with the text v defines its key with
Declared(v) ==
    LET validator == IF Arg(v, "validate") = <<>> THEN "" ELSE Arg(v, "validate")[1]
        env == IF Arg(v, "env") = <<>> THEN "" ELSE Arg(v, "env")[1]
        value == IF Arg(v, "default") = <<>> THEN NoneV
                 ELSE Typed(validator, Arg(v, "default")[1])
    IN  Defined(value, validator, env)

\* the last value the override file gives the key k, as a sequence of at
\* most one string
FileValue(k) ==
    LET at == {i \in 1..Len(override.entries) : override.entries[i].key = k}
    IN  IF at = {} THEN <<>>
        ELSE <<override.entries[CHOOSE i \in at : \A j \in at : j <= i].value>>

\* the config object after the override file was applied to it
Applied(cfg) ==
    [k \in DOMAIN cfg |->
        IF FileValue(k) = <<>> THEN cfg[k]
        ELSE [cfg[k] EXCEPT !.value = Typed(cfg[k].validator, FileValue(k)[1])]]

\* the config object after the first n entries of the override file were
\* applied to it: where a load that failed at entry n + 1 leaves it
AppliedUpTo(cfg, n) ==
    [k \in DOMAIN cfg |->
        LET at == {i \in 1..n : override.entries[i].key = k}
        IN  IF at = {} THEN cfg[k]
            ELSE [cfg[k] EXCEPT !.value =
                     Typed(cfg[k].validator,
                           override.entries[CHOOSE i \in at : \A j \in at : j <= i].value)]]

\* the value the key k resolves to: the bound environment variable when it
\* is set, else the stored value
Resolved(k) ==
    IF fsm.config[k].env \in DOMAIN environ
    THEN Typed(fsm.config[k].validator, environ[fsm.config[k].env])
    ELSE fsm.config[k].value

\* the steps of a compilation change the config object in three ways only:
\* a CONFIG directive stores the validated default, the validator and the
\* environment variable of its key; a load of the override file replaces
\* the stored value of the keys the file sets, those before the entry it
\* failed at when it failed; nothing else changes a key
ConfigStep ==
    /\ Handled("config") =>
          fsm'.config = [k \in DOMAIN fsm.config \cup {fsm'.data[1]} |->
                            IF k = fsm'.data[1] THEN Declared(fsm'.data) ELSE fsm.config[k]]
    /\ world'.config_loads # world.config_loads =>
          /\ \E n \in 0..Len(override.entries) : fsm'.config = AppliedUpTo(fsm.config, n)
          /\ err' = NoErr => fsm'.config = Applied(fsm.config)
    /\ (~Handled("config") /\ ~Handled("config_server")
            /\ world'.config_loads = world.config_loads) =>
          fsm'.config = fsm.config

\* what parse returns and the servers it declares hold the resolved values
ResolvedValuesUsed ==
    /\ (result.kind = "control" /\ {"loop.sleep", "loop.max_iterations"} \subseteq DOMAIN fsm.config)
          => result.sleep = Resolved("loop.sleep")
    /\ \A i \in 1..Len(world.declared) :
          world.declared[i].name # "default" =>
             /\ world.declared[i].port = Resolved(world.declared[i].name \o ".port").i
             /\ world.declared[i].active = Truthy(Resolved(world.declared[i].name \o ".is_active"))

\* C12: the value of a registered key is the value of its bound environment
\* variable when that variable is set, else the value the override file
\* gives it, else its default, each passed through the key's validator.
C12_Precedence ==
    [][ConfigStep]_vars /\ [](ResolvedValuesUsed)

\* parse returned the value of the environment variable for a key that the
\* override file sets as well
C12_Witness ==
    /\ result.kind = "control" /\ result.sleep = IntV(7)
    /\ override.exists /\ world.config_loads = 1
    /\ fsm.config["loop.sleep"].value = IntV(2)

(***************************************************************************)
(* Properties of the value parse returns (Spec).                           *)
(***************************************************************************)
\* the final done was handled in a full compilation
CompiledOk ==
    /\ ~config_only
    /\ hist.events # <<>> /\ hist.events[Len(hist.events)] = "done"
    /\ fsm.state = "done"

\* the value of the key k when it is registered, else 100
OrDefault(k) == IF k \in DOMAIN fsm.config THEN Resolved(k) ELSE IntV(100)

\* C13: a successful compilation returns sleep and max_iterations, each the
\* value of its key loop.sleep or loop.max_iterations when that key is
\* registered and 100 when it is not, whichever of the two keys are
\* registered, and the teardown function the FSM stored.
C13_LoopDefaults ==
    CompiledOk =>
        /\ result.kind = "control"
        /\ result.sleep = OrDefault("loop.sleep")
        /\ result.max_iterations = OrDefault("loop.max_iterations")
        /\ result.teardown = fsm.teardown

(***************************************************************************)
(* Properties of the FSM (Spec).                                           *)
(***************************************************************************)
\* the step handed an event to FSM.handle
Dispatched == Len(hist'.events) = Len(hist.events) + 1

\* the event a Dispatched step handed over
Event == hist'.events[Len(hist'.events)]

\* the transitions of the states ServerOpen, RouteOpen and Done: the state
\* an accepted event leads to
Transitions ==
    [server |-> [route |-> "route", done |-> "done"],
     route |-> [get |-> "route", post |-> "route", put |-> "route", delete |-> "route",
                route |-> "route", server |-> "server", port |-> "server",
                done |-> "done"],
     done |-> <<>>]

\* a step that dispatches an event outside Init and Config follows the table
TableStep ==
    Dispatched /\ fsm.state \in DOMAIN Transitions =>
        LET accepts == Transitions[fsm.state] IN
        /\ err' = NoErr => Event \in DOMAIN accepts /\ fsm'.state = accepts[Event]
        /\ Event = "route" /\ fsm.state # "done" => err' = NoErr
        /\ Event \notin DOMAIN accepts =>
               /\ err' # NoErr /\ err'.arg \in {"invalid record", "unexpected event"}
               /\ pc' = "raised"
               /\ fsm'.state = fsm.state /\ world' = world
        /\ fsm.state = "route" /\ Event \in {"server", "port", "done"} =>
               /\ Len(world'.finalized) = Len(world.finalized) + 1
               /\ world'.finalized[Len(world'.finalized)].name = fsm.server[1].name

\* C14: outside Init and Config the FSM moves as the table says: ServerOpen
\* accepts route (to RouteOpen) and done (to Done); RouteOpen accepts the
\* four methods and route (staying), server and port (to ServerOpen, the
\* current server finalized first) and done (to Done); Done accepts
\* nothing; every other event raises and ends the compilation.
C14_TransitionTable == [][TableStep]_vars

C14_Witness ==
    /\ err = NoErr /\ fsm.state = "server"
    /\ hist.events = <<"config_server", "port", "route", "server">>
    /\ Len(world.finalized) = 1


\* parse returned
Succeeded == result.kind \in {"control", "config"}

\* what holds at every moment of a compilation: one server is open at most,
\* and every server but the open one has been finalized, once, in the order
\* of declaration
OneOpenServer ==
    /\ Len(fsm.server) <= 1
    /\ Len(world.declared) - Len(world.finalized) \in {0, 1}
    /\ IsPrefix(Ids(world.finalized), Ids(world.declared))
    /\ \A i \in 1..Len(world.finalized) :
           world.finalized[i].active = world.declared[i].active

\* what holds once parse has returned
AllFinalized ==
    Succeeded =>
        /\ fsm.state = "done"
        /\ Ids(world.finalized) = Ids(world.declared)
        /\ RegisteredIds = ActiveDeclaredIds
        /\ \A i \in 1..Len(world.registered) :
               \E j \in 1..Len(world.declared) :
                   /\ world.declared[j].active
                   /\ world.declared[j].port = world.registered[i].port

\* a server is finalized by the event that supersedes it or by done, and a
\* step finalizes and registers one server at most
FinalizeStep ==
    world'.finalized # world.finalized =>
        /\ Dispatched /\ Event \in {"server", "port", "done"}
        /\ Len(world'.finalized) = Len(world.finalized) + 1
        /\ Len(world'.registered) <= Len(world.registered) + 1

\* C15: after a successful compilation the FSM is in Done, one server at
\* most was open at any moment, every declared server was finalized exactly
\* once (by the next server or port event or by the final done), and the
\* registrations are the declared servers whose active flag is true, in the
\* order of declaration, once each; an inactive server is never registered.
C15_FinalizedOnce == [][FinalizeStep]_vars /\ [](OneOpenServer /\ AllFinalized)

C15_Witness ==
    /\ result.kind = "control"
    /\ Len(world.declared) = 2 /\ ~world.declared[1].active
    /\ Len(world.finalized) = 2
    /\ Len(world.registered) = 1 /\ world.registered[1].name = "default"


\* the step dispatched a server event that constructed a Server
ServerDeclared ==
    /\ Dispatched /\ Event = "server"
    /\ Len(world'.declared) = Len(world.declared) + 1

\* the server a ServerDeclared step constructed
NewServer == world'.declared[Len(world'.declared)]

\* an earlier server, or an earlier server that a SERVER directive named,
\* has the port of the new one
PortTaken == \E i \in 1..Len(world.declared) : world.declared[i].port = NewServer.port
PortTakenByNamed ==
    \E i \in 1..Len(world.declared) :
        /\ world.declared[i].port = NewServer.port
        /\ world.declared[i].name # "default"

\* C16 as stated: a SERVER directive whose port is the port of an earlier
\* server is accepted when it is declared; the duplicate is reported only
\* by the event that finalizes the later server.
C16_ReportedAtFinalization ==
    [][ServerDeclared /\ PortTaken => err' = NoErr /\ fsm'.state = "server"]_vars

\* the server event reports the duplicate itself
DuplicateStep ==
    ServerDeclared =>
        /\ err' # NoErr <=> PortTakenByNamed
        /\ err' # NoErr =>
               /\ err'.arg = "port already defined for server"
               /\ pc' = "raised"
               /\ fsm'.state = fsm.state
               /\ Len(world'.finalized) = Len(world.declared)
               /\ Len(world'.registered) <= Len(world.declared)

\* C16 as amended: a SERVER directive whose port is the port of an earlier
\* server named by a SERVER directive is refused by its own server event,
\* after the server that was open has been finalized: the new server is
\* constructed but never opened, finalized or registered, and the
\* compilation ends there; a server event that constructs its server fails
\* in no other case.
C16_ReportedAtDeclaration == [][DuplicateStep]_vars

C16_Witness ==
    /\ err # NoErr /\ err.arg = "port already defined for server"
    /\ hist.events = <<"config_server", "server", "route", "server">>
    /\ Len(world.declared) = 2 /\ Len(world.finalized) = 1


(***************************************************************************)
(* Properties of the errors of a compilation (Spec).                       *)
(***************************************************************************)
\* the step dispatched an event and FSM.handle raised
HandleRaised ==
    /\ Dispatched /\ err' # NoErr
    /\ ~(Event = "done" /\ fsm.state # "done" /\ fsm'.state = "done")

\* the file and line FSM.handle was called with: for a directive, those of
\* the stream element the loop is at; for the done after the loop, the file
\* of the last element and its line number plus one
Position ==
    IF idx' = idx THEN [line |-> last[1].lnum + 1, file |-> last[1].fname]
    ELSE IF idx <= Len(lines) THEN [line |-> lines[idx].lnum, file |-> lines[idx].fname]
    ELSE [line |-> idx, file |-> Root]

ErrorStep ==
    HandleRaised =>
        /\ err'.kind = "Exception"
        /\ err'.ctx = <<Position>>
        /\ pc' = "raised"

\* the error parse raised is the one the caller is left with
ErrorKept == (err # NoErr /\ pc # "raised") => pc \in {"exit", "crashed"}

\* C17: an error raised while the FSM handles an event, in whatever state
\* and through whatever re-dispatch between Init and Config, leaves parse
\* carrying the file and the line number of the directive that was
\* dispatched, once; an error of the done after the loop carries the file
\* of the last stream line and its line number plus one.
C17_ErrorPosition == [][ErrorStep /\ (err # NoErr => err' = err)]_vars /\ []ErrorKept

C17_Witness ==
    /\ pc = "raised" /\ hist.events = <<"port", "done">>
    /\ last = <<[fname |-> Root, lnum |-> 1]>>
    /\ err.ctx = <<[line |-> 2, file |-> Root]>>


(***************************************************************************)
(* Properties of the flattened stream (SpecLoad).                          *)
(***************************************************************************)
\* the import graph of the files is acyclic and every target exists
Acyclic == Expansion.err = NoErr

\* the element is a physical line of the file it names, at the line number
\* it names, and is no IMPORT line
Tagged(e) ==
    /\ CanOpen(fs, e.fname)
    /\ e.lnum \in 1..Len(readlines(fs, e.fname))
    /\ readlines(fs, e.fname)[e.lnum] = e.l
    /\ ~(Len(split(e.l)) > 1 /\ lower(Str(split(e.l)[1])) = "import")

\* C18: for an acyclic import graph the stream of the loader is the
\* depth-first expansion of the root file in place: each IMPORT line is
\* replaced by the expansion of its target, every other line is kept in
\* order, comments and blank lines too, tagged with the file it came from
\* and its line number in that file.
C18_InPlaceExpansion ==
    (Loaded /\ Acyclic) =>
        /\ err.kind \notin {"Exception", "RuntimeError"}
        /\ Len(lines) = Len(Expansion.lines)
        /\ \A i \in 1..Len(lines) : lines[i] = Expansion.lines[i] /\ Tagged(lines[i])


(***************************************************************************)
(* Properties of the lexer (SpecLex).                                      *)
(***************************************************************************)
\* the least element of a non-empty set of numbers, else d
Least(S, d) == IF S = {} THEN d ELSE CHOOSE k \in S : \A j \in S : k <= j

\* the line without its comment and without the whitespace around it
Body(l) ==
    LET c == Least({i \in 1..Len(l) : l[i] = "#"}, Len(l) + 1)
        text == {i \in 1..(c - 1) : l[i] \notin Whitespace}
    IN  IF text = {} THEN <<>>
        ELSE SubSeq(l, Least(text, 0), CHOOSE k \in text : \A j \in text : j <= k)

\* the lower-cased spelling of a run of tokens
Lowered(t) == Str([i \in 1..Len(t) |-> lower(t[i])])

\* the step is an iteration of the loop of parse
LoopStep == idx' = idx + 1 /\ idx <= Len(lines)

\* what an iteration makes of a line whose body is t when the name ends
\* before position i and the value starts at position j: nothing for a
\* blank line; else one event, handed to the FSM unless the compilation is
\* config-only and the event no config event
Lexed(t, i, j) ==
    IF t = <<>> \/ config_skip(config_only, Lowered(SubSeq(t, 1, i - 1)))
    THEN UNCHANGED <<hist, fsm, world, err, pc>>
    ELSE /\ Dispatched /\ Event = Lowered(SubSeq(t, 1, i - 1))
         /\ fsm'.data = SubSeq(t, j, Len(t))

\* the lexer rejects the line
Rejected ==
    /\ err'.kind = "ValueError" /\ err'.ctx = <<>>
    /\ pc' = "raised"
    /\ UNCHANGED <<hist, fsm, world>>

\* C19 as stated: every line that is not blank once its comment and the
\* whitespace around it are removed gives one event: the name is the
\* lower-cased first token, the value what follows the first run of
\* whitespace, and a line of a single token gives an event with an empty
\* value that is dispatched.
C19_SplitAtWhitespaceRun ==
    [][LoopStep =>
        LET t == Body(lines[idx].l)
            i == Least({k \in 1..Len(t) : t[k] \in Whitespace}, Len(t) + 1)
            j == Least({k \in i..Len(t) : t[k] \notin Whitespace}, Len(t) + 1)
        IN  Lexed(t, i, j)]_vars

\* C19 as amended: the line is split at its first blank: the name is the
\* lower-cased text before it and the value all the text after it, further
\* whitespace included; a line that is not blank and holds no blank is
\* rejected with a ValueError and no event is dispatched for it.
C19_SplitAtFirstBlank ==
    [][LoopStep =>
        LET t == Body(lines[idx].l)
            i == Least({k \in 1..Len(t) : t[k] = " "}, 0)
        IN  IF t # <<>> /\ i = 0 THEN Rejected ELSE Lexed(t, i, i + 1)]_vars

C19_Witness ==
    /\ lines = <<[fname |-> Root, lnum |-> 1, l |-> <<"\t", "Port", " ", "1">>]>>
    /\ hist.events = <<"port", "done">>
    /\ result.kind = "control" /\ Len(world.registered) = 1


\* C20: the loader ends for every set of files, by returning or by raising
\* one of its own errors, because a file that is recorded as visited is
\* never expanded again: the nesting of expansions stays within the number
\* of files, and the recursion limit of the interpreter is never what ends
\* the loader.
C20_VisitedEndsLoader ==
    Loaded =>
        /\ err.kind # "RuntimeError"
        /\ \A i, j \in 1..Len(lines) :
               (/\ Resolve(fs, lines[i].fname) = Resolve(fs, lines[j].fname)
                /\ lines[i].lnum = lines[j].lnum) => i = j


(***************************************************************************)
(* Properties of the stream without lines (SpecLoad).                      *)
(***************************************************************************)
\* the loader returned a stream of no physical line and the loop of parse
\* is over
EmptyStreamParsed == Loaded /\ ~LoadFailed /\ lines = <<>> /\ pc # "lex"

\* C21: for a source whose flattened stream holds no physical line (an
\* empty root file, or a root of nothing but IMPORTs of empty files) parse
\* dispatches the one done event and returns the default control result,
\* 100 and 100 with the no-op teardown, instead of failing.
C21_EmptyStreamReturns ==
    EmptyStreamParsed =>
        /\ err = NoErr
        /\ hist.events = <<"done">>
        /\ result = [NoResult EXCEPT !.kind = "control", !.sleep = IntV(100),
                                     !.max_iterations = IntV(100)]

====
